---- MODULE Spec2Model ----
(***************************************************************************)
(* Model of the Monte Carlo "buy vs mine" engine of btc_mine               *)
(* (src/js/montecarlo.js).                                                 *)
(*                                                                         *)
(* Numbers.  A JavaScript number is modelled as x + r*eps: x is a real     *)
(* value, kept exactly, and r*eps what rounding has added to it, eps being *)
(* the rounding unit of a double and the arithmetic being carried to first *)
(* order in eps.                                                           *)
(*   - Num:    <<n, d>>, the rational n/d in lowest terms with d > 0, or   *)
(*             <<n, d, rn, rd>>, n/d + (rn/rd)*eps with rn # 0;            *)
(*             <<0,0>> is NaN, <<1,0>> is +Infinity, <<-1,0>> -Infinity.   *)
(*   - LogNum: c + l2*ln 2 + l3*ln 3 + q*(ln 2)^2 + s*kappa with Num       *)
(*             coefficients, kappa = sqrt(1 - 0.7^2): the values Math.log  *)
(*             and Math.sqrt produce and the drift arithmetic combines     *)
(*             (volatilities are rationals or multiples of ln 2).          *)
(*   - Price:  k * e^e * 2^p2 * 3^p3 * e^(q*(ln 2)^2) * e^(s*kappa), the   *)
(*             values Math.exp produces; p2, p3 are kept in [0,1), whole   *)
(*             powers are folded into k, so equal prices have equal        *)
(*             records.                                                    *)
(* Rounding.  ECMA-262 leaves the results of Math.exp and Math.log to the  *)
(* implementation ("implementation-approximated"), exp(0) = 1 and          *)
(* log(1) = 0 excepted: the engine a behaviour runs on returns the real    *)
(* value off by engine.exp, engine.log rounding units.  The rounding of    *)
(* +, -, * and / is not modelled: they are exact on x + r*eps.             *)
(***************************************************************************)
EXTENDS Integers, Sequences, FiniteSets, TLC

\* ------------------------------------------------------- exact rationals
Abs(x) == IF x < 0 THEN -x ELSE x

RECURSIVE GCD(_, _)
GCD(a, b) == IF b = 0 THEN a ELSE GCD(b, a % b)

\* n/d, d # 0, in lowest terms, g being the greatest common divisor
NormBy(n, d, g) == IF d < 0 THEN <<-(n \div g), -(d \div g)>> ELSE <<n \div g, d \div g>>

Norm(n, d) ==
    IF d = 0 THEN (IF n > 0 THEN <<1, 0>> ELSE IF n < 0 THEN <<-1, 0>> ELSE <<0, 0>>)
    ELSE NormBy(n, d, GCD(Abs(n), Abs(d)))

NaN == <<0, 0>>
PosInf == <<1, 0>>
NegInf == <<-1, 0>>
Zero == <<0, 1>>
One == <<1, 1>>
Half == <<1, 2>>
Hundred == <<100, 1>>
Int2Rat(n) == <<n, 1>>

QSign(x) == IF x[1] > 0 THEN 1 ELSE IF x[1] < 0 THEN -1 ELSE 0

QNeg(x) == <<-x[1], x[2]>>

\* x + y for finite x and y, g dividing both denominators
QAddBy(x, y, g) == Norm(x[1] * (y[2] \div g) + y[1] * (x[2] \div g), (x[2] \div g) * y[2])

QAdd(x, y) ==
    IF x = Zero THEN y
    ELSE IF y = Zero THEN x
    ELSE IF x[2] # 0 /\ y[2] # 0 THEN QAddBy(x, y, GCD(x[2], y[2]))
    ELSE IF x = NaN \/ y = NaN THEN NaN
    ELSE IF x[2] = 0 /\ y[2] = 0 THEN (IF x = y THEN x ELSE NaN)
    ELSE IF x[2] = 0 THEN x ELSE y

\* x * y for finite x and y in lowest terms, g1 dividing x[1] and y[2],
\* g2 dividing y[1] and x[2]
QMulBy(x, y, g1, g2) ==
    <<(x[1] \div g1) * (y[1] \div g2), (x[2] \div g2) * (y[2] \div g1)>>

QMul(x, y) ==
    IF x = One THEN y
    ELSE IF y = One THEN x
    ELSE IF x[2] # 0 /\ y[2] # 0
    THEN QMulBy(x, y, GCD(Abs(x[1]), y[2]), GCD(Abs(y[1]), x[2]))
    ELSE IF x = NaN \/ y = NaN \/ x[1] = 0 \/ y[1] = 0 THEN NaN
    ELSE <<QSign(x) * QSign(y), 0>>

QDiv(x, y) ==
    IF x = NaN \/ y = NaN THEN NaN
    ELSE IF y[2] = 0 THEN (IF x[2] # 0 THEN Zero ELSE NaN)
    ELSE IF y[1] = 0 THEN <<QSign(x), 0>>
    ELSE QMul(x, IF y[1] < 0 THEN <<-y[2], -y[1]>> ELSE <<y[2], y[1]>>)

\* x < y for finite x and y, g dividing both denominators
QLtBy(x, y, g) == x[1] * (y[2] \div g) < y[1] * (x[2] \div g)

\* x < y as JavaScript compares numbers: false when either is NaN.
QLt(x, y) ==
    IF x = NaN \/ y = NaN THEN FALSE
    ELSE IF x[2] = y[2] THEN x[1] < y[1]
    ELSE IF x[2] # 0 /\ y[2] # 0 THEN QLtBy(x, y, GCD(x[2], y[2]))
    ELSE x = NegInf \/ y = PosInf

\* ------------------------------------------------------------------ Num
\* the real value of a number
Exact(x) == <<x[1], x[2]>>
\* what rounding has added to it, in units of eps
Err(x) == IF Len(x) = 4 THEN <<x[3], x[4]>> ELSE Zero
\* v + e * eps
Num(v, e) == IF v[2] = 0 \/ e[1] = 0 \/ e[2] = 0 THEN v ELSE <<v[1], v[2], e[1], e[2]>>

IsNaN(x) == x = NaN
Sign(x) == IF Len(x) = 4 /\ x[1] = 0 THEN QSign(Err(x)) ELSE QSign(x)

RNeg(x) == IF Len(x) = 4 THEN <<-x[1], x[2], -x[3], x[4]>> ELSE QNeg(x)

RAdd(x, y) ==
    IF Len(x) = 2 /\ Len(y) = 2 THEN QAdd(x, y)
    ELSE Num(QAdd(Exact(x), Exact(y)), QAdd(Err(x), Err(y)))

RSub(x, y) == RAdd(x, RNeg(y))

RMul(x, y) ==
    IF Len(x) = 2 /\ Len(y) = 2 THEN QMul(x, y)
    ELSE Num(QMul(Exact(x), Exact(y)),
             QAdd(QMul(Exact(x), Err(y)), QMul(Err(x), Exact(y))))

\* x / y to first order; a quotient of order 1/eps is beyond every double
RDiv(x, y) ==
    IF Len(x) = 2 /\ Len(y) = 2 THEN QDiv(x, y)
    ELSE IF Exact(y) = Zero
    THEN (IF Exact(x) = Zero THEN QDiv(Err(x), Err(y))
          ELSE <<QSign(x) * QSign(Err(y)), 0>>)
    ELSE Num(QDiv(Exact(x), Exact(y)),
             QDiv(QAdd(QMul(Err(x), Exact(y)), QNeg(QMul(Exact(x), Err(y)))),
                  QMul(Exact(y), Exact(y))))

\* x < y as JavaScript compares numbers: false when either is NaN.
RLt(x, y) ==
    IF Len(x) = 2 /\ Len(y) = 2 THEN QLt(x, y)
    ELSE QLt(Exact(x), Exact(y)) \/ (Exact(x) = Exact(y) /\ QLt(Err(x), Err(y)))

RGt(x, y) == RLt(y, x)
RLe(x, y) == RLt(x, y) \/ (x # NaN /\ x = y)
RGe(x, y) == RLe(y, x)

\* Math.abs
RAbs(x) == IF RLt(x, Zero) THEN RNeg(x) ELSE x

\* Math.floor and Math.ceil of a finite number, as integers.
Floor(x) == IF Len(x) = 4 /\ x[2] = 1 /\ x[3] < 0 THEN x[1] - 1 ELSE x[1] \div x[2]
Ceil(x) == IF Len(x) = 4 /\ x[2] = 1 /\ x[3] > 0 THEN x[1] + 1 ELSE -((-x[1]) \div x[2])

RECURSIVE IPow(_, _)
IPow(b, n) == IF n = 0 THEN 1 ELSE b * IPow(b, n - 1)

\* b^n for an integer b > 0 and any integer n.
RPow(b, n) == IF n >= 0 THEN <<IPow(b, n), 1>> ELSE <<1, IPow(b, -n)>>

\* --------------------------------------------------------------- LogNum
\* 1 - rho^2 for the correlation 0.7 of line 177: kappa is its square root
KappaSquared == <<51, 100>>

LogOf(c, l2, l3, q, s) == [c |-> c, l2 |-> l2, l3 |-> l3, q |-> q, s |-> s]
LNaN == LogOf(NaN, NaN, NaN, NaN, NaN)
LIsNaN(x) == x.c = NaN \/ x.l2 = NaN \/ x.l3 = NaN \/ x.q = NaN \/ x.s = NaN
LFix(x) == IF LIsNaN(x) THEN LNaN ELSE x
\* a rational
LRat(r) == IF r = NaN THEN LNaN ELSE LogOf(r, Zero, Zero, Zero, Zero)
LZero == LogOf(Zero, Zero, Zero, Zero, Zero)
LOne == LogOf(One, Zero, Zero, Zero, Zero)
LHalf == LogOf(Half, Zero, Zero, Zero, Zero)
\* k * ln 2
LLn2(k) == LogOf(Zero, k, Zero, Zero, Zero)
LIsRat(x) == x.c # NaN /\ x.l2 = Zero /\ x.l3 = Zero /\ x.q = Zero /\ x.s = Zero
\* a multiple of ln 2
LIsLn2(x) == x.c = Zero /\ x.l2 # NaN /\ x.l3 = Zero /\ x.q = Zero /\ x.s = Zero

LAdd(x, y) ==
    LFix(LogOf(RAdd(x.c, y.c), RAdd(x.l2, y.l2), RAdd(x.l3, y.l3), RAdd(x.q, y.q),
               RAdd(x.s, y.s)))
LSub(x, y) == LAdd(x, LogOf(RNeg(y.c), RNeg(y.l2), RNeg(y.l3), RNeg(y.q), RNeg(y.s)))
\* x * r for a rational r (0 times Infinity is NaN)
LScale(x, r) ==
    LFix(LogOf(RMul(x.c, r), RMul(x.l2, r), RMul(x.l3, r), RMul(x.q, r), RMul(x.s, r)))
\* x * y, for the products that stay in the form: anything times a
\* rational, and a multiple of ln 2 times a multiple of ln 2
LMul(x, y) ==
    IF LIsNaN(x) \/ LIsNaN(y) THEN LNaN
    ELSE IF LIsRat(y) THEN LScale(x, y.c)
    ELSE IF LIsRat(x) THEN LScale(y, x.c)
    ELSE CASE LIsLn2(x) /\ LIsLn2(y) -> LogOf(Zero, Zero, Zero, RMul(x.l2, y.l2), Zero)
\* x / r for a rational r
LDivR(x, r) ==
    LFix(LogOf(RDiv(x.c, r), RDiv(x.l2, r), RDiv(x.l3, r), RDiv(x.q, r), RDiv(x.s, r)))

\* the exponent of the prime p in the positive integer n
RECURSIVE Val(_, _)
Val(n, p) == IF n % p = 0 THEN 1 + Val(n \div p, p) ELSE 0

\* ln(2^a2 * 3^a3 / (2^b2 * 3^b3)), which r has to be, plus c
LogOfPowers(r, a2, b2, a3, b3, c) ==
    CASE r[1] = IPow(2, a2) * IPow(3, a3) /\ r[2] = IPow(2, b2) * IPow(3, b3) ->
         LogOf(c, Int2Rat(a2 - b2), Int2Rat(a3 - b3), Zero, Zero)

\* what Math.log(r) is off by: nothing for log(1), else what r is off by,
\* to first order, and the rounding of the engine
logError(r, eng) ==
    IF r = One THEN Zero
    ELSE Num(Zero, QAdd(QDiv(Err(r), Exact(r)), Int2Rat(eng.log)))

\* Math.log of a number whose numerator and denominator are products of 2s
\* and 3s
MathLog(r, eng) ==
    IF r = NaN \/ r[1] < 0 THEN LNaN
    ELSE IF r[1] = 0
    THEN (IF Sign(r) < 0 THEN LNaN ELSE LogOf(NegInf, Zero, Zero, Zero, Zero))
    ELSE IF r[2] = 0 THEN LogOf(PosInf, Zero, Zero, Zero, Zero)
    ELSE LogOfPowers(r, Val(r[1], 2), Val(r[2], 2), Val(r[1], 3), Val(r[2], 3),
                     logError(r, eng))

\* the integer square root of n >= 0, searched from k
RECURSIVE ISqrtFrom(_, _)
ISqrtFrom(n, k) == IF (k + 1) * (k + 1) > n THEN k ELSE ISqrtFrom(n, k + 1)

\* the square root a/b of r, which r has to have
SqrtBy(r, a, b) == CASE a * a = r[1] /\ b * b = r[2] -> LogOf(<<a, b>>, Zero, Zero, Zero, Zero)

\* Math.sqrt of a number that is a square, or that is 1 - 0.7^2 = 51/100
MathSqrt(r) ==
    IF r = NaN \/ r[1] < 0 THEN LNaN
    ELSE IF r = KappaSquared THEN LogOf(Zero, Zero, Zero, Zero, One)
    ELSE SqrtBy(r, ISqrtFrom(r[1], 0), ISqrtFrom(r[2], 0))

\* ---------------------------------------------------------------- Price
\* k * e^e * 2^p2 * 3^p3 * e^(q * (ln 2)^2) * e^(s * kappa)
PriceOf(k, e, p2, p3, q, s) == [k |-> k, e |-> e, p2 |-> p2, p3 |-> p3, q |-> q, s |-> s]
PNaN == PriceOf(NaN, NaN, NaN, NaN, NaN, NaN)
PIsNaN(x) == x.k = NaN
\* a rational as a price
PRat(r) == IF r = NaN THEN PNaN ELSE PriceOf(r, Zero, Zero, Zero, Zero, Zero)
PIsRat(x) ==
    x.k # NaN /\ x.e = Zero /\ x.p2 = Zero /\ x.p3 = Zero /\ x.q = Zero /\ x.s = Zero
\* whole powers of 2 and 3 are folded into the coefficient
PFold(k, e, p2, p3, q, s) ==
    IF k = NaN \/ e = NaN \/ p2 = NaN \/ p3 = NaN \/ q = NaN \/ s = NaN THEN PNaN
    ELSE PriceOf(RMul(k, RMul(RPow(2, Floor(p2)), RPow(3, Floor(p3)))),
                 e,
                 <<p2[1] % p2[2], p2[2]>>,
                 <<p3[1] % p3[2], p3[2]>>,
                 q, s)

\* Math.exp: exp(0) is 1; any other result is off by what the argument is
\* off by, to first order, and by the rounding of the engine
MathExp(x, eng) ==
    IF LIsNaN(x) THEN PNaN
    ELSE IF x = LZero THEN PRat(One)
    ELSE PFold(Num(One, QAdd(Err(x.c), Int2Rat(eng.exp))),
               Exact(x.c), x.l2, x.l3, x.q, x.s)

PMul(x, y) ==
    IF PIsNaN(x) \/ PIsNaN(y) THEN PNaN
    ELSE PFold(RMul(x.k, y.k), RAdd(x.e, y.e), RAdd(x.p2, y.p2), RAdd(x.p3, y.p3),
               RAdd(x.q, y.q), RAdd(x.s, y.s))

\* a price times a rational
PScale(x, r) == IF PIsNaN(x) \/ r = NaN THEN PNaN ELSE [x EXCEPT !.k = RMul(x.k, r)]
\* the rational value of a price that is rational (NaN for NaN)
PToRat(x) == IF PIsNaN(x) THEN NaN ELSE CASE PIsRat(x) -> x.k

\* 1 / x
PInv(x) ==
    IF PIsNaN(x) THEN PNaN
    ELSE PFold(RDiv(One, x.k), RNeg(x.e), RNeg(x.p2), RNeg(x.p3), RNeg(x.q), RNeg(x.s))

\* ------------------------------------------------- generateGBMPaths
\* A JavaScript array is a sequence; index j of the array is element j + 1.
\* row[j] of a row of draws: undefined, hence NaN in arithmetic, outside it.
ZAt(row, j) == IF j >= 0 /\ j < Len(row) THEN row[j + 1] ELSE LNaN
\* path[j] of a price path, likewise.
PathAt(path, j) == IF j >= 0 /\ j < Len(path) THEN path[j + 1] ELSE PNaN

\* The values randomNormal() (lines 47-52) can return, cut down to two.
DrawSet == {LZero, LOne}

\* The values an unseeded randomNormal() returns to successive calls:
\* call number n gets stream[((n - 1) % Len(stream)) + 1].
FreshAt(stream, n) == stream[((n - 1) % Len(stream)) + 1]

\* the step of lines 30-33 with the diffusion not scaled by sigma
gbmStepDiffusionWithoutSigma(S_prev, mu, sigma, z, eng) ==
    PMul(S_prev, MathExp(LAdd(LSub(mu, LMul(LMul(LHalf, sigma), sigma)), z), eng))

\* lines 30-33: one step of the path from S_prev with draw z
gbmStep(S_prev, mu, sigma, z, eng) ==
    LET dt == One
        drift == LMul(LSub(mu, LMul(LMul(LHalf, sigma), sigma)), LRat(dt))
        diffusion == LMul(LMul(sigma, MathSqrt(dt)), z)
    IN  PMul(S_prev, MathExp(LAdd(drift, diffusion), eng))

\* line 28 reading the first draw of the row at every step
gbmDrawFirstCell(correlatedRandom, fresh, i, t, used) ==
    IF correlatedRandom.given
    THEN [z |-> ZAt(correlatedRandom.m[i], 0), used |-> used]
    ELSE [z |-> FreshAt(fresh, used + 1), used |-> used + 1]

\* line 28 always calling randomNormal()
gbmDrawIgnoresGiven(correlatedRandom, fresh, i, t, used) ==
    [z |-> FreshAt(fresh, used + 1), used |-> used + 1]

\* line 28: the draw of step t of path i (both counted from 1) when `used`
\* calls of randomNormal() were made before it; z is the draw, used the
\* number of calls after it.
gbmDraw(correlatedRandom, fresh, i, t, used) ==
    IF correlatedRandom.given
    THEN [z |-> ZAt(correlatedRandom.m[i], t - 1), used |-> used]
    ELSE [z |-> FreshAt(fresh, used + 1), used |-> used + 1]

\* line 22 simulating the first entry as well
gbmStartSimulated(S0, mu, sigma, eng) == gbmStep(PRat(S0), mu, sigma, LZero, eng)

\* line 22: the first entry of every path
gbmStart(S0, mu, sigma, eng) == PRat(S0)

\* lines 24-36: the inner loop from step t on, for path i
RECURSIVE gbmInner(_, _, _, _, _, _, _, _, _, _)
gbmInner(path, t, mu, sigma, years, correlatedRandom, fresh, eng, i, used) ==
    IF t > years THEN [path |-> path, used |-> used]
    ELSE LET d == gbmDraw(correlatedRandom, fresh, i, t, used)
             S_t == gbmStep(path[t], mu, sigma, d.z, eng)
         IN  gbmInner(Append(path, S_t), t + 1, mu, sigma, years,
                      correlatedRandom, fresh, eng, i, d.used)

\* lines 21-39: path i (counted from 1).  Every path makes the same number
\* of calls of randomNormal(), so the paths before it made (i - 1) times
\* the calls of one path.
gbmPath(i, S0, mu, sigma, years, correlatedRandom, fresh, eng) ==
    gbmInner(<<gbmStart(S0, mu, sigma, eng)>>, 1, mu, sigma, years, correlatedRandom,
             fresh, eng, i,
             (i - 1) * gbmInner(<<gbmStart(S0, mu, sigma, eng)>>, 1, mu, sigma, years,
                                correlatedRandom, fresh, eng, i, 0).used)

\* lines 17-42.  paths: the returned array; calls: how many times
\* randomNormal() was called.  correlatedRandom is [given, m]: given is
\* FALSE for null, m is the matrix; fresh is what randomNormal() would
\* return, engine how Math.exp rounds.
generateGBMPaths(S0, mu, sigma, years, numPaths, correlatedRandom, fresh, eng) ==
    [paths |-> [i \in 1..numPaths |->
                  gbmPath(i, S0, mu, sigma, years, correlatedRandom, fresh, eng).path]
               \o <<>>,
     calls |-> IF numPaths > 0
               THEN gbmPath(numPaths, S0, mu, sigma, years, correlatedRandom, fresh,
                            eng).used
               ELSE 0]

\* ------------------------------------------------- drift calibration
\* line 156 without the division by the horizon
calibrateDriftNoPerYear(target, start, years, volatility, eng) ==
    LAdd(MathLog(RDiv(target, start), eng), LMul(LMul(LHalf, volatility), volatility))

\* line 156 without the +0.5*sigma^2 term
calibrateDriftNoHalfSigma2(target, start, years, volatility, eng) ==
    LDivR(MathLog(RDiv(target, start), eng), years)

\* line 156 (and 157 for the secondary series)
calibrateDrift(target, start, years, volatility, eng) ==
    LAdd(LDivR(MathLog(RDiv(target, start), eng), years),
         LMul(LMul(LHalf, volatility), volatility))

\* ------------------------------------------------- buy strategy
\* lines 325-327, for a path whose terminal price is rational (or NaN);
\* years is an integer
buyROI(btcPath, investorCapital, years) ==
    LET btcBought == PScale(PInv(PathAt(btcPath, 0)), investorCapital)
        btcFinalValue == PMul(btcBought, PathAt(btcPath, years))
    IN  RMul(RDiv(RSub(PToRat(btcFinalValue), investorCapital), investorCapital), Hundred)

\* ------------------------------------------------- generateCorrelatedRandoms
\* lines 61-94 with one value of randomNormal() per cell, used as e1 and as e2
generateCorrelatedRandomsOneDraw(numPaths, numSteps, rho, fresh) ==
    LET b == LRat(rho)
        c == MathSqrt(RSub(One, RMul(rho, rho)))
        steps == IF numSteps > 0 THEN numSteps ELSE 0
        e1(i, t) == FreshAt(fresh, (i - 1) * steps + t)
    IN  [z1 |-> [i \in 1..numPaths |-> [t \in 1..steps |-> e1(i, t)] \o <<>>] \o <<>>,
         z2 |-> [i \in 1..numPaths |->
                   [t \in 1..steps |-> LAdd(LMul(b, e1(i, t)), LMul(c, e1(i, t)))] \o <<>>]
                \o <<>>,
         calls |-> numPaths * steps]

\* lines 61-94.  Cell (i, t) takes two values of randomNormal(), e1 then e2;
\* calls: how many times randomNormal() was called.
generateCorrelatedRandoms(numPaths, numSteps, rho, fresh) ==
    LET a == LOne
        b == LRat(rho)
        c == MathSqrt(RSub(One, RMul(rho, rho)))
        steps == IF numSteps > 0 THEN numSteps ELSE 0
        e1(i, t) == FreshAt(fresh, 2 * ((i - 1) * steps + (t - 1)) + 1)
        e2(i, t) == FreshAt(fresh, 2 * ((i - 1) * steps + (t - 1)) + 2)
    IN  [z1 |-> [i \in 1..numPaths |-> [t \in 1..steps |-> LMul(a, e1(i, t))] \o <<>>] \o <<>>,
         z2 |-> [i \in 1..numPaths |->
                   [t \in 1..steps |-> LAdd(LMul(b, e1(i, t)), LMul(c, e2(i, t)))] \o <<>>]
                \o <<>>,
         calls |-> 2 * numPaths * steps]

\* ------------------------------------------------- mining parameters
\* a JavaScript number used as a condition
Truthy(x) == x # NaN /\ x # Zero
\* x || d
OrElse(x, d) == IF Truthy(x) THEN x ELSE d

\* lines 313-316
BLOCKS_PER_YEAR == 52596
CURRENT_BLOCK_REWARD == <<25, 8>>
HALVING_YEAR == 2028
EQUIPMENT_RESIDUAL_PERCENT == <<1, 5>>

\* splitValue.split('-').map(v => parseInt(v)) for the split texts of the model
SplitParts(splitValue) ==
    CASE splitValue = "40-60" -> <<Int2Rat(40), Int2Rat(60)>>
      [] splitValue = "50-50" -> <<Int2Rat(50), Int2Rat(50)>>
      [] splitValue = "100-0" -> <<Int2Rat(100), Zero>>

\* lines 264-286, splitValue and totalLpCapital read
investmentStructure(splitValue, totalLpCapital, investorCapital) ==
    LET lpPercent == OrElse(SplitParts(splitValue)[2], Int2Rat(50))
        isOwnerOperator == totalLpCapital = Zero \/ splitValue = "100-0"
        investorLpSharePercent ==
            IF isOwnerOperator THEN Zero
            ELSE IF RGt(totalLpCapital, Zero)
                 THEN RMul(RDiv(investorCapital, totalLpCapital), Hundred)
                 ELSE Zero
    IN  [gpPercent |-> OrElse(SplitParts(splitValue)[1], Int2Rat(50)),
         lpPercent |-> lpPercent,
         totalLpCapital |-> totalLpCapital,
         isOwnerOperator |-> isOwnerOperator,
         investorLpSharePercent |-> investorLpSharePercent,
         investorProfitSharePercent |->
             IF isOwnerOperator THEN Hundred
             ELSE RMul(RDiv(investorLpSharePercent, Hundred), lpPercent)]

\* lines 241-298: the mining, capital-structure and network parameters read
\* from projectData (pd) and localStorage (ls).  A key of localStorage that
\* is absent or does not parse is NaN; an absent gpLpSplit is "".
readParameters(pd, ls, investorCapital) ==
    [totalCapex |-> IF Truthy(pd.totalCapex) THEN pd.totalCapex
                    ELSE OrElse(ls.totalCapex, Zero),
     annualOpex |-> IF Truthy(pd.totalOpex) THEN pd.totalOpex
                    ELSE OrElse(ls.totalOpex, Zero),
     totalHashratePH |-> IF Truthy(pd.totalHashratePH) THEN pd.totalHashratePH
                         ELSE OrElse(ls.totalHashratePH, Zero),
     startYear |-> IF Truthy(pd.startYear) THEN pd.startYear
                   ELSE OrElse(ls.startYear, Int2Rat(2026)),
     structure |-> investmentStructure(IF ls.gpLpSplit # "" THEN ls.gpLpSplit ELSE "40-60",
                                       OrElse(ls.totalLpCapital, Zero), investorCapital),
     networkHashrateEH |-> OrElse(ls.networkHashrate, Int2Rat(600)),
     difficultyGrowth |-> OrElse(ls.difficultyGrowth, <<1, 20>>),
     uptime |-> OrElse(ls.uptime, <<24, 25>>)]

\* Math.pow(b, n) for a rational b and an integer n >= 0
RECURSIVE MathPow(_, _)
MathPow(b, n) == IF n = 0 THEN One ELSE RMul(b, MathPow(b, n - 1))

\* lines 338-353: the BTC mined from year `year` to year `years`
RECURSIVE btcMinedFrom(_, _, _)
btcMinedFrom(year, years, mp) ==
    IF year > years THEN Zero
    ELSE LET calendarYear == RSub(RAdd(mp.startYear, Int2Rat(year)), One)
             reward == IF RLt(calendarYear, Int2Rat(HALVING_YEAR))
                       THEN CURRENT_BLOCK_REWARD
                       ELSE RDiv(CURRENT_BLOCK_REWARD, <<2, 1>>)
             networkHashratePH == RMul(mp.networkHashrateEH, Int2Rat(1000))
             difficultyFactor == MathPow(RAdd(One, mp.difficultyGrowth), year - 1)
             effectiveHashrate == RDiv(mp.totalHashratePH, difficultyFactor)
             networkShare == RDiv(effectiveHashrate, networkHashratePH)
             btcMined == RMul(RMul(RMul(networkShare, Int2Rat(BLOCKS_PER_YEAR)), reward),
                              mp.uptime)
         IN  RAdd(btcMined, btcMinedFrom(year + 1, years, mp))

\* utils.js lines 211-216 with the difficulty compounding from the first year
calculateNetworkShareCompounding(minerHashratePH, networkHashrateEH, difficultyGrowth, year) ==
    RDiv(RDiv(minerHashratePH, MathPow(RAdd(One, difficultyGrowth), year)),
         RMul(networkHashrateEH, Int2Rat(1000)))

\* utils.js lines 211-216, year an integer >= 1
calculateNetworkShare(minerHashratePH, networkHashrateEH, difficultyGrowth, year) ==
    LET networkHashratePH == RMul(networkHashrateEH, Int2Rat(1000))
        difficultyFactor == MathPow(RAdd(One, difficultyGrowth), year - 1)
        effectiveHashrate == RDiv(minerHashratePH, difficultyFactor)
    IN  RDiv(effectiveHashrate, networkHashratePH)

\* line 334 asking for either parameter instead of both
miningConfiguredEither(mp) == RGt(mp.totalHashratePH, Zero) \/ RGt(mp.totalCapex, Zero)

\* line 334
miningConfigured(mp) == RGt(mp.totalHashratePH, Zero) /\ RGt(mp.totalCapex, Zero)

\* lines 355-380 without the equipment residual of lines 365-369
mineReturnWithoutResidual(btcPath, investorCapital, years, mp, totalBtcMined) ==
    LET totalLpBtcEarned == RMul(totalBtcMined, RDiv(mp.structure.lpPercent, Hundred))
        investorBtcEarned ==
            IF mp.structure.isOwnerOperator THEN totalBtcMined
            ELSE RMul(RDiv(investorCapital, mp.structure.totalLpCapital), totalLpBtcEarned)
        btcValue == PToRat(PScale(PathAt(btcPath, years), investorBtcEarned))
        investorOpexShare ==
            IF mp.structure.isOwnerOperator THEN RMul(mp.annualOpex, Int2Rat(years))
            ELSE RMul(RDiv(investorCapital, mp.totalCapex),
                      RMul(mp.annualOpex, Int2Rat(years)))
        netReturn == RSub(RSub(btcValue, investorCapital), investorOpexShare)
    IN  RMul(RDiv(netReturn, investorCapital), Hundred)

\* lines 355-380, totalBtcMined being the sum of lines 336-353; for a path
\* whose terminal price is rational (or NaN)
mineReturn(btcPath, investorCapital, years, mp, totalBtcMined) ==
    LET totalLpBtcEarned == RMul(totalBtcMined, RDiv(mp.structure.lpPercent, Hundred))
        investorBtcEarned ==
            IF mp.structure.isOwnerOperator THEN totalBtcMined
            ELSE RMul(RDiv(investorCapital, mp.structure.totalLpCapital), totalLpBtcEarned)
        btcValue == PToRat(PScale(PathAt(btcPath, years), investorBtcEarned))
        equipmentResidual == RMul(mp.totalCapex, EQUIPMENT_RESIDUAL_PERCENT)
        investorEquipmentShare ==
            RMul(RDiv(investorCapital, mp.totalCapex), equipmentResidual)
        totalValue == RAdd(btcValue, investorEquipmentShare)
        investorOpexShare ==
            IF mp.structure.isOwnerOperator THEN RMul(mp.annualOpex, Int2Rat(years))
            ELSE RMul(RDiv(investorCapital, mp.totalCapex),
                      RMul(mp.annualOpex, Int2Rat(years)))
        netReturn == RSub(RSub(totalValue, investorCapital), investorOpexShare)
    IN  RMul(RDiv(netReturn, investorCapital), Hundred)

\* lines 332-400
mineROI(btcPath, investorCapital, years, mp) ==
    IF miningConfigured(mp)
    THEN mineReturn(btcPath, investorCapital, years, mp, btcMinedFrom(1, years, mp))
    ELSE Zero

\* ------------------------------------------------- utils.js, investor.js, financial.js
\* utils.js lines 207-209 with the halving year itself at the full reward
getBlockRewardAfterHalvingYear(year) ==
    IF RLe(year, Int2Rat(HALVING_YEAR)) THEN CURRENT_BLOCK_REWARD
    ELSE RDiv(CURRENT_BLOCK_REWARD, <<2, 1>>)

\* utils.js lines 207-209
getBlockReward(year) ==
    IF RLt(year, Int2Rat(HALVING_YEAR)) THEN CURRENT_BLOCK_REWARD
    ELSE RDiv(CURRENT_BLOCK_REWARD, <<2, 1>>)

\* investor.js lines 57-86, the three values read given
getInvestmentStructure(splitValue, totalLpCapital, investorCapital, totalCapex) ==
    LET isOwnerOperator == totalLpCapital = Zero \/ splitValue = "100-0"
        investorLpSharePercent ==
            IF isOwnerOperator THEN Zero
            ELSE IF RGt(totalLpCapital, Zero)
                 THEN RMul(RDiv(investorCapital, totalLpCapital), Hundred)
                 ELSE Zero
    IN  [gpPercent |-> IF isOwnerOperator THEN Hundred ELSE SplitParts(splitValue)[1],
         lpPercent |-> IF isOwnerOperator THEN Zero ELSE SplitParts(splitValue)[2],
         totalLpCapital |-> totalLpCapital,
         investorCapital |-> investorCapital,
         investorLpSharePercent |-> investorLpSharePercent,
         investorProfitSharePercent |->
             IF isOwnerOperator THEN Hundred
             ELSE RMul(RDiv(investorLpSharePercent, Hundred), SplitParts(splitValue)[2]),
         totalCapex |-> totalCapex,
         isOwnerOperator |-> isOwnerOperator]

\* investor.js lines 158-162: the BTC mined in year `year`
lpBtcMined(year, pd, networkHashrateEH, difficultyGrowth, uptime) ==
    LET startYear == OrElse(pd.startYear, Int2Rat(2026))
        calendarYear == RSub(RAdd(startYear, Int2Rat(year)), One)
        reward == getBlockReward(calendarYear)
        networkShare == calculateNetworkShare(pd.totalHashratePH, networkHashrateEH,
                                              difficultyGrowth, year)
    IN  RMul(RMul(RMul(networkShare, Int2Rat(BLOCKS_PER_YEAR)), reward), uptime)

\* investor.js lines 155-163: totalBtcMined after the years 1..year
RECURSIVE lpBtcMinedTo(_, _, _, _, _)
lpBtcMinedTo(year, pd, networkHashrateEH, difficultyGrowth, uptime) ==
    IF year = 0 THEN Zero
    ELSE RAdd(lpBtcMinedTo(year - 1, pd, networkHashrateEH, difficultyGrowth, uptime),
              lpBtcMined(year, pd, networkHashrateEH, difficultyGrowth, uptime))

\* investor.js lines 150-190; networkHashrateEH is what getCurrentInputs()
\* returns (line 152), pd is projectData, yearlyPrices has five prices
calculateLpMiningReturns(btcPrice, difficultyGrowth, uptime, yearlyPrices, structure, pd, networkHashrateEH) ==
    LET totalBtcMined == lpBtcMinedTo(5, pd, networkHashrateEH, difficultyGrowth, uptime)
        totalLpBtcEarned == RMul(totalBtcMined, RDiv(structure.lpPercent, Hundred))
        investorBtcEarned ==
            IF RGt(structure.totalLpCapital, Zero)
            THEN RMul(RDiv(structure.investorCapital, structure.totalLpCapital),
                      totalLpBtcEarned)
            ELSE Zero
        equipmentResidual == RMul(pd.totalCapex, EQUIPMENT_RESIDUAL_PERCENT)
        investorEquipmentShare ==
            RMul(RDiv(structure.investorCapital, structure.totalCapex), equipmentResidual)
        finalPrice == yearlyPrices[5]
        investorBtcValue == RMul(investorBtcEarned, finalPrice)
        totalValue == RAdd(investorBtcValue, investorEquipmentShare)
    IN  [totalBtcMined |-> totalBtcMined,
         lpBtcEarned |-> investorBtcEarned,
         lpBtcValue |-> investorBtcValue,
         lpEquipmentShare |-> investorEquipmentShare,
         totalValue |-> totalValue,
         roi |-> IF RGt(structure.investorCapital, Zero)
                 THEN RMul(RDiv(RSub(totalValue, structure.investorCapital),
                                structure.investorCapital), Hundred)
                 ELSE Zero]

\* financial.js lines 188-196: the BTC mined in year `year` of the projection
projectedBtcMined(year, inputs, pd) ==
    LET networkHashrate == RMul(inputs.networkHashrateEH, Int2Rat(1000))
        startYear == OrElse(pd.startYear, Int2Rat(2026))
        calendarYear == RSub(RAdd(startYear, Int2Rat(year)), One)
        reward == getBlockReward(calendarYear)
        difficultyFactor == MathPow(RAdd(One, inputs.difficultyGrowth), year - 1)
        effectiveHashrate == RDiv(pd.totalHashratePH, difficultyFactor)
        networkShare == RDiv(effectiveHashrate, networkHashrate)
    IN  RMul(RMul(RMul(networkShare, Int2Rat(BLOCKS_PER_YEAR)), reward), inputs.uptime)

\* financial.js lines 181, 196: totalBtcMined after the years 1..year
RECURSIVE projectedBtcMinedTo(_, _, _)
projectedBtcMinedTo(year, inputs, pd) ==
    IF year = 0 THEN Zero
    ELSE RAdd(projectedBtcMinedTo(year - 1, inputs, pd), projectedBtcMined(year, inputs, pd))

\* financial.js lines 170-232, the BTC mined of yearlyData and the total
calculateYearlyProjections(inputs, pd) ==
    [yearlyData |-> [year \in 1..5 |-> [year |-> year,
                                        btcMined |-> projectedBtcMined(year, inputs, pd)]],
     totalBtcMined |-> projectedBtcMinedTo(5, inputs, pd)]

\* line 406
SCENARIOS_KEPT == 10

\* lines 402-418 with the mine ROI scaled by the terminal hash price
pathOutcomeValuedAtSecondary(i, btcPath, hashPath, years, buy, mine) ==
    [buyROI |-> buy, mineROI |-> RMul(mine, PToRat(PathAt(hashPath, years))),
     scenario |-> [run |-> i,
                   btcStart |-> PathAt(btcPath, 0), btcEnd |-> PathAt(btcPath, years),
                   hashStart |-> PathAt(hashPath, 0), hashEnd |-> PathAt(hashPath, years),
                   buyROI |-> buy, mineROI |-> mine,
                   winner |-> IF RGt(buy, mine) THEN "Buy" ELSE "Mine",
                   margin |-> RAbs(RSub(buy, mine))]]

\* lines 402-418: what path i (counted from 1) leaves, buy and mine being
\* its two ROIs
pathOutcome(i, btcPath, hashPath, years, buy, mine) ==
    [buyROI |-> buy, mineROI |-> mine,
     scenario |-> [run |-> i,
                   btcStart |-> PathAt(btcPath, 0), btcEnd |-> PathAt(btcPath, years),
                   hashStart |-> PathAt(hashPath, 0), hashEnd |-> PathAt(hashPath, years),
                   buyROI |-> buy, mineROI |-> mine,
                   winner |-> IF RGt(buy, mine) THEN "Buy" ELSE "Mine",
                   margin |-> RAbs(RSub(buy, mine))]]

\* lines 421-432 with the scenario of every path retained
simulationResultKeepingAll(out, investorCapital, years, mp) ==
    [buyResults |-> [i \in 1..Len(out) |-> out[i].buyROI] \o <<>>,
     mineResults |-> [i \in 1..Len(out) |-> out[i].mineROI] \o <<>>,
     scenarios |-> [i \in 1..Len(out) |-> out[i].scenario] \o <<>>,
     parameters |-> [investorCapital |-> investorCapital, years |-> years,
                     totalCapex |-> mp.totalCapex, annualOpex |-> mp.annualOpex,
                     totalHashratePH |-> mp.totalHashratePH]]

\* lines 421-432: the returned object, out holding the outcome of every path
simulationResult(out, investorCapital, years, mp) ==
    [buyResults |-> [i \in 1..Len(out) |-> out[i].buyROI] \o <<>>,
     mineResults |-> [i \in 1..Len(out) |-> out[i].mineROI] \o <<>>,
     scenarios |-> [i \in 1..(IF Len(out) < SCENARIOS_KEPT THEN Len(out) ELSE SCENARIOS_KEPT)
                      |-> out[i].scenario] \o <<>>,
     parameters |-> [investorCapital |-> investorCapital, years |-> years,
                     totalCapex |-> mp.totalCapex, annualOpex |-> mp.annualOpex,
                     totalHashratePH |-> mp.totalHashratePH]]

\* lines 312-433 evaluating the first path in every round of the loop
simulateWithFirstPath(btcPaths, hashPaths, investorCapital, years, mp) ==
    simulationResult([i \in 1..Len(btcPaths) |->
                        pathOutcome(i, btcPaths[1], hashPaths[1], years,
                                    buyROI(btcPaths[1], investorCapital, years),
                                    mineROI(btcPaths[1], investorCapital, years, mp))]
                     \o <<>>,
                     investorCapital, years, mp)

\* lines 312-433, mp being the parameters of lines 241-298
simulateWith(btcPaths, hashPaths, investorCapital, years, mp) ==
    simulationResult([i \in 1..Len(btcPaths) |->
                        pathOutcome(i, btcPaths[i], hashPaths[i], years,
                                    buyROI(btcPaths[i], investorCapital, years),
                                    mineROI(btcPaths[i], investorCapital, years, mp))]
                     \o <<>>,
                     investorCapital, years, mp)

\* lines 235-433
runSimulations(btcPaths, hashPaths, investorCapital, years, pd, ls) ==
    simulateWith(btcPaths, hashPaths, investorCapital, years,
                 readParameters(pd, ls, investorCapital))

\* a call of runSimulations that also writes what it read of projectData
\* back to localStorage
runSimulationsEffectStoring(btcPaths, hashPaths, investorCapital, years, pd, ls, sr) ==
    [returned |-> runSimulations(btcPaths, hashPaths, investorCapital, years, pd, ls),
     btcPaths |-> btcPaths, hashPaths |-> hashPaths, projectData |-> pd,
     localStorage |-> [ls EXCEPT !.totalCapex = pd.totalCapex],
     simulationResults |-> sr]

\* lines 235-433: what a call returns and what it leaves of the objects in
\* its reach.  The arrays are read by index (lines 319-326, 409-412),
\* projectData by property and localStorage by getItem (lines 245-294);
\* simulationResults (sr) is not named in the function.
runSimulationsEffect(btcPaths, hashPaths, investorCapital, years, pd, ls, sr) ==
    [returned |-> runSimulations(btcPaths, hashPaths, investorCapital, years, pd, ls),
     btcPaths |-> btcPaths, hashPaths |-> hashPaths, projectData |-> pd,
     localStorage |-> ls, simulationResults |-> sr]

\* ------------------------------------------------- statistics
\* Array.prototype.sort with the comparator (a, b) => a - b: the sort is
\* stable, so arr[j] goes after the smaller elements and the equal elements
\* before it.
SortPosition(arr, j) ==
    Cardinality({i \in 1..Len(arr) : RLt(arr[i], arr[j]) \/ (i < j /\ arr[i] = arr[j])}) + 1

\* the array with arr[j] at position pos[j]
SortedBy(arr, pos) ==
    [k \in 1..Len(arr) |-> arr[CHOOSE j \in 1..Len(arr) : pos[j] = k]] \o <<>>

\* line 439 with the comparator (a, b) => b - a
SortDescending(arr) ==
    SortedBy(arr, [j \in 1..Len(arr) |->
                      Cardinality({i \in 1..Len(arr) :
                                      RGt(arr[i], arr[j]) \/ (i < j /\ arr[i] = arr[j])}) + 1] \o <<>>)

SortAscending(arr) == SortedBy(arr, [j \in 1..Len(arr) |-> SortPosition(arr, j)] \o <<>>)

\* arr[j] of an array of numbers: undefined, hence NaN, outside it
NumAt(arr, j) == IF j >= 0 /\ j < Len(arr) THEN arr[j + 1] ELSE NaN

\* lines 441-444 returning the nearest order statistic instead
interpolateNearestRank(sorted, index) == NumAt(sorted, Floor(RAdd(index, Half)))

\* lines 441-444
interpolate(sorted, index) ==
    LET lower == Floor(index)
        upper == Ceil(index)
        weight == RSub(index, Int2Rat(lower))
    IN  RAdd(RMul(NumAt(sorted, lower), RSub(One, weight)),
             RMul(NumAt(sorted, upper), weight))

\* line 440: (p / 100) * (sorted.length - 1)
percentileIndex(p, length) == RMul(RDiv(Int2Rat(p), Hundred), Int2Rat(length - 1))

\* lines 438-445
percentile(arr, p) == interpolate(SortAscending(arr), percentileIndex(p, Len(arr)))

\* the numbers of an array
Elements(data) == {data[j] : j \in 1..Len(data)}

\* Math.min(...data)
MathMin(data) ==
    IF data = <<>> THEN PosInf
    ELSE IF NaN \in Elements(data) THEN NaN
    ELSE CHOOSE x \in Elements(data) : \A y \in Elements(data) : RLe(x, y)

\* Math.max(...data)
MathMax(data) ==
    IF data = <<>> THEN NegInf
    ELSE IF NaN \in Elements(data) THEN NaN
    ELSE CHOOSE x \in Elements(data) : \A y \in Elements(data) : RGe(x, y)

\* line 621
numBins == 30

\* line 811: d is counted in the bin from binStart to binEnd
inBin(d, binStart, binEnd) == RGe(d, binStart) /\ RLt(d, binEnd)

\* lines 805-813, starts[k] and ends[k] being binStart and binEnd of bin k - 1
histogramOf(data, nBins, starts, ends) ==
    [bins |-> [k \in 1..nBins |-> RDiv(RAdd(starts[k], ends[k]), <<2, 1>>)] \o <<>>,
     counts |-> [k \in 1..nBins |->
                   Cardinality({j \in 1..Len(data) :
                                  inBin(data[j], starts[k], ends[k])})] \o <<>>]

\* line 806: binStart of every bin
binStarts(nBins, min, binWidth) ==
    [k \in 1..nBins |-> RAdd(min, RMul(Int2Rat(k - 1), binWidth))] \o <<>>

\* line 807: binEnd of every bin
binEnds(nBins, starts, binWidth) == [k \in 1..nBins |-> RAdd(starts[k], binWidth)] \o <<>>

\* lines 798-808, min and binWidth computed
histogramFrom(data, nBins, starts, binWidth) ==
    histogramOf(data, nBins, starts, binEnds(nBins, starts, binWidth))

\* lines 798-800, min and max computed
histogramBetween(data, nBins, min, max) ==
    histogramFrom(data, nBins,
                  binStarts(nBins, min, RDiv(RSub(max, min), Int2Rat(nBins))),
                  RDiv(RSub(max, min), Int2Rat(nBins)))

\* lines 797-815
createHistogram(data, nBins) == histogramBetween(data, nBins, MathMin(data), MathMax(data))

\* lines 503-504 counting a tie as a win
winsCountingTies(x, y) == RGe(x, y)

\* lines 503-504: x wins over y
wins(x, y) == RGt(x, y)

\* lines 497-507: how many indices the loop counts for a condition
CountWhere(n, cond) == Cardinality({i \in 1..n : cond[i]})

\* lines 509-512
rate(k, numSims) == RMul(RDiv(Int2Rat(k), Int2Rat(numSims)), Hundred)

\* lines 496-512 of displayResults
winRates(buyResults, mineResults, numSims) ==
    LET n == Len(buyResults)
        buyWon == [i \in 1..n |-> wins(NumAt(buyResults, i - 1), NumAt(mineResults, i - 1))]
        mineWon == [i \in 1..n |-> wins(NumAt(mineResults, i - 1), NumAt(buyResults, i - 1))]
        buyLost == [i \in 1..n |-> RLt(NumAt(buyResults, i - 1), Zero)]
        mineLost == [i \in 1..n |-> RLt(NumAt(mineResults, i - 1), Zero)]
    IN  [buyWins |-> CountWhere(n, buyWon), mineWins |-> CountWhere(n, mineWon),
         buyLosses |-> CountWhere(n, buyLost), mineLosses |-> CountWhere(n, mineLost),
         buyWinRate |-> rate(CountWhere(n, buyWon), numSims),
         mineWinRate |-> rate(CountWhere(n, mineWon), numSims),
         buyDownside |-> rate(CountWhere(n, buyLost), numSims),
         mineDownside |-> rate(CountWhere(n, mineLost), numSims)]

\* ------------------------------------------------- the arrays after the statistics
\* lines 438-445 with the sort applied to arr itself (no slice)
percentileCallSortingInPlace(arr, p) == [value |-> percentile(arr, p), arr |-> SortAscending(arr)]

\* lines 438-445 as a call: the value returned and the caller's array after
\* the call; arr.slice() is a new array, so the sort leaves arr as it was
percentileCall(arr, p) == [value |-> percentile(arr, p), arr |-> arr]

\* lines 472-482 (486-496 for mining): the five calls in the order of the
\* object literal, each on the array the call before left, then Math.min
\* and Math.max
statsCalls(arr) ==
    LET c10 == percentileCall(arr, 10)
        c25 == percentileCall(c10.arr, 25)
        c50 == percentileCall(c25.arr, 50)
        c75 == percentileCall(c50.arr, 75)
        c90 == percentileCall(c75.arr, 90)
    IN  [stats |-> [p10 |-> c10.value, p25 |-> c25.value, p50 |-> c50.value,
                    p75 |-> c75.value, p90 |-> c90.value,
                    min |-> MathMin(c90.arr), max |-> MathMax(c90.arr)],
         arr |-> c90.arr]

\* lines 467-512: the statistics of both arrays, then the win-rate loop on
\* the arrays as the statistics left them
displayStatistics(buyResults, mineResults, numSims) ==
    LET buy == statsCalls(buyResults)
        mine == statsCalls(mineResults)
    IN  [stats |-> [buy |-> buy.stats, mine |-> mine.stats],
         buyResults |-> buy.arr, mineResults |-> mine.arr,
         rates |-> winRates(buy.arr, mine.arr, numSims)]

\* ------------------------------------------------- displayResults
\* Number.prototype.toFixed(f), as the number the text denotes
ToFixed(x, f) ==
    IF x[2] = 0 THEN x
    ELSE Norm(Sign(x) * Floor(RAdd(RMul(RAbs(x), Int2Rat(IPow(10, f))), Half)), IPow(10, f))

\* lines 471-494, one strategy (without mean and std): the five calls of
\* percentile sort the same array the same way, so it is sorted once
statsOfSorted(arr, sorted) ==
    [p10 |-> interpolate(sorted, percentileIndex(10, Len(sorted))),
     p25 |-> interpolate(sorted, percentileIndex(25, Len(sorted))),
     p50 |-> interpolate(sorted, percentileIndex(50, Len(sorted))),
     p75 |-> interpolate(sorted, percentileIndex(75, Len(sorted))),
     p90 |-> interpolate(sorted, percentileIndex(90, Len(sorted))),
     min |-> MathMin(arr), max |-> MathMax(arr)]

strategyStats(arr) == statsOfSorted(arr, SortAscending(arr))

\* the texts written for one strategy: lines 516-521, 567-568, 602-603, 609-610
statTexts(st) ==
    [p10 |-> ToFixed(st.p10, 1), p25 |-> ToFixed(st.p25, 1), p50 |-> ToFixed(st.p50, 1),
     p75 |-> ToFixed(st.p75, 1), p90 |-> ToFixed(st.p90, 1),
     min |-> ToFixed(st.min, 1), max |-> ToFixed(st.max, 1)]

NoPage == [summary |-> [simRunCount |-> 0], buyCounts |-> <<>>, mineCounts |-> <<>>,
           scenarios |-> <<>>]

\* lines 514-550 with the banner naming BUY BTC when the medians are equal
displayWithBuyOnEqualMedians(results, numSims, buy, mine, w) ==
    [summary |-> [simRunCount |-> numSims,
                  buy |-> statTexts(buy), mine |-> statTexts(mine),
                  mcWinnerText |-> IF RGe(buy.p50, mine.p50) THEN "BUY BTC" ELSE "MINE BTC",
                  buyWinRate |-> ToFixed(w.buyWinRate, 1),
                  mineWinRate |-> ToFixed(w.mineWinRate, 1),
                  buyDownside |-> ToFixed(w.buyDownside, 1),
                  mineDownside |-> ToFixed(w.mineDownside, 1)],
     buyCounts |-> createHistogram(results.buyResults, numBins).counts,
     mineCounts |-> createHistogram(results.mineResults, numBins).counts,
     scenarios |-> results.scenarios]

\* lines 514-550: what is written, buy and mine being the statistics of
\* lines 471-494 and w the rates of lines 496-512.  summary: lines 515-541;
\* buyCounts and mineCounts: the two histograms of line 544; scenarios:
\* line 550.
displayWith(results, numSims, buy, mine, w) ==
    [summary |-> [simRunCount |-> numSims,
                  buy |-> statTexts(buy), mine |-> statTexts(mine),
                  mcWinnerText |-> IF RGt(buy.p50, mine.p50) THEN "BUY BTC" ELSE "MINE BTC",
                  buyWinRate |-> ToFixed(w.buyWinRate, 1),
                  mineWinRate |-> ToFixed(w.mineWinRate, 1),
                  buyDownside |-> ToFixed(w.buyDownside, 1),
                  mineDownside |-> ToFixed(w.mineDownside, 1)],
     buyCounts |-> createHistogram(results.buyResults, numBins).counts,
     mineCounts |-> createHistogram(results.mineResults, numBins).counts,
     scenarios |-> results.scenarios]

\* lines 467-551
displayResults(results, numSims) ==
    displayWith(results, numSims, strategyStats(results.buyResults),
                strategyStats(results.mineResults),
                winRates(results.buyResults, results.mineResults, numSims))

\* ------------------------------------------------- runMonteCarloSimulation
\* line 138
MIN_SIMULATIONS == 100
MAX_SIMULATIONS == 10000
\* line 177
correlation == <<7, 10>>

\* x / 100 || d for a volatility field
LOrElse(x, d) == IF LIsNaN(x) \/ x = LZero THEN d ELSE x

\* lines 128-151: the alert of the first check that fails, "" when all pass.
\* cfg holds the parsed fields of lines 109-120.
validationAlert(cfg) ==
    IF \/ ~Truthy(cfg.numSims) \/ ~Truthy(cfg.projectionYears)
       \/ ~Truthy(cfg.btcStartPrice) \/ ~Truthy(cfg.btcTargetPrice)
       \/ ~Truthy(cfg.investorCapital)
    THEN "Please fill in all required parameters (BTC prices and investment amount)"
    ELSE IF \/ IsNaN(cfg.numSims) \/ IsNaN(cfg.projectionYears)
            \/ IsNaN(cfg.btcStartPrice) \/ IsNaN(cfg.btcTargetPrice)
            \/ IsNaN(cfg.investorCapital)
    THEN "Please enter valid numbers for all parameters"
    ELSE IF RLt(cfg.numSims, Int2Rat(MIN_SIMULATIONS))
            \/ RGt(cfg.numSims, Int2Rat(MAX_SIMULATIONS))
    THEN "Number of simulations must be between 100 and 10,000"
    ELSE IF RLe(cfg.btcTargetPrice, Zero) \/ RLe(cfg.btcStartPrice, Zero)
    THEN "BTC prices must be positive"
    ELSE IF RLe(cfg.investorCapital, Zero)
    THEN "Investment amount must be positive"
    ELSE ""

\* lines 183-203, btc and hash being what the two calls of
\* generateGBMPaths returned
pathsWith(correlatedRandoms, btc, hash) ==
    [btcPaths |-> btc.paths, hashPaths |-> hash.paths,
     randomCalls |-> correlatedRandoms.calls + btc.calls + hash.calls]

\* lines 155-203 for a form that passed the checks, correlatedRandoms being
\* the matrices of line 178
generatePathsWith(cfg, fresh, eng, correlatedRandoms) ==
    pathsWith(correlatedRandoms,
        generateGBMPaths(cfg.btcStartPrice,
                         calibrateDrift(cfg.btcTargetPrice, cfg.btcStartPrice,
                                        cfg.projectionYears,
                                        LDivR(cfg.btcVolatility, Hundred), eng),
                         LDivR(cfg.btcVolatility, Hundred),
                         cfg.projectionYears[1], cfg.numSims[1],
                         [given |-> TRUE, m |-> correlatedRandoms.z1], fresh, eng),
        generateGBMPaths(OrElse(cfg.hashStartPrice, Int2Rat(50)),
                         calibrateDrift(OrElse(cfg.hashTargetPrice, Int2Rat(50)),
                                        OrElse(cfg.hashStartPrice, Int2Rat(50)),
                                        cfg.projectionYears,
                                        LOrElse(LDivR(cfg.hashVolatility, Hundred),
                                                LRat(<<2, 5>>)), eng),
                         LOrElse(LDivR(cfg.hashVolatility, Hundred), LRat(<<2, 5>>)),
                         cfg.projectionYears[1], cfg.numSims[1],
                         [given |-> TRUE, m |-> correlatedRandoms.z2], fresh, eng))

\* lines 155-203 for a form that passed the checks
generatePaths(cfg, fresh, eng) ==
    generatePathsWith(cfg, fresh, eng,
        generateCorrelatedRandoms(cfg.numSims[1], cfg.projectionYears[1], correlation, fresh))

\* line 114 and line 156: the volatility and the drift of the primary series
btcSigma(cfg) == LDivR(cfg.btcVolatility, Hundred)
btcDrift(cfg, eng) ==
    calibrateDrift(cfg.btcTargetPrice, cfg.btcStartPrice, cfg.projectionYears,
                   btcSigma(cfg), eng)

\* lines 116-118 and line 157: the secondary series
hashStart(cfg) == OrElse(cfg.hashStartPrice, Int2Rat(50))
hashSigma(cfg) == LOrElse(LDivR(cfg.hashVolatility, Hundred), LRat(<<2, 5>>))
hashDrift(cfg, eng) ==
    calibrateDrift(OrElse(cfg.hashTargetPrice, Int2Rat(50)), hashStart(cfg),
                   cfg.projectionYears, hashSigma(cfg), eng)

\* lines 183-190: the call that generates the primary paths from z1
generateBtcPaths(cfg, z1, fresh, eng) ==
    generateGBMPaths(cfg.btcStartPrice, btcDrift(cfg, eng), btcSigma(cfg),
                     cfg.projectionYears[1], cfg.numSims[1],
                     [given |-> TRUE, m |-> z1], fresh, eng)

\* lines 195-202: the call that generates the secondary paths from z2
generateHashPaths(cfg, z2, fresh, eng) ==
    generateGBMPaths(hashStart(cfg), hashDrift(cfg, eng), hashSigma(cfg),
                     cfg.projectionYears[1], cfg.numSims[1],
                     [given |-> TRUE, m |-> z2], fresh, eng)

\* lines 207-215, g being the paths of lines 183-203 and results what
\* runSimulations returned
runWith(cfg, g, results) ==
    [results |-> results, btcPaths |-> g.btcPaths, randomCalls |-> g.randomCalls,
     shown |-> displayResults(results, cfg.numSims[1])]

\* lines 207-215, g being the paths of lines 183-203
simulateWithPaths(cfg, g, pd, ls) ==
    runWith(cfg, g, runSimulations(g.btcPaths, g.hashPaths, cfg.investorCapital,
                                   cfg.projectionYears[1], pd, ls))

\* =================================================================
\* State
\* =================================================================
VARIABLES
    engine,              \* how Math.exp and Math.log of the eng round
    projectData,         \* script.js: the mining project of steps 1-4
    localStorage,        \* the keys runSimulations reads
    simulationResults,   \* montecarlo.js line 5
    mcInstructions,      \* style.display of the instructions panel
    mcResults,           \* style.display of the results panel
    page,                \* what displayResults last wrote
    lastRun,             \* what the last call of runMonteCarloSimulation did
    hArgs, hOut, hBuy,   \* generateGBMPaths called on its own
    sData, sOut,         \* the statistics functions called on their own
    rArgs, rOut,         \* runSimulations called on its own
    nOut,                \* calculateNetworkShare called on its own
    run,                 \* a call of runMonteCarloSimulation, statement by statement
    cOut,                \* generateCorrelatedRandoms called on its own
    qOut,                \* the mining calculations of the three modules side by side
    csv,                 \* what the handler that ran last exported
    nav                  \* script.js: navigation between the steps

mvars == <<projectData, localStorage, simulationResults, mcInstructions, mcResults,
           page, lastRun>>
hvars == <<hArgs, hOut, hBuy>>
svars == <<sData, sOut>>
rvars == <<rArgs, rOut>>
nvars == <<nOut>>
pvars == <<run>>
cvars == <<cOut>>
qvars == <<qOut>>
xvars == <<csv>>
gvars == <<nav>>
vars == <<engine, mvars, hvars, svars, rvars, nvars, pvars, cvars, qvars, xvars, gvars>>

null == [isNull |-> TRUE]

\* the engines of the model: by how many rounding units the results of
\* Math.exp and Math.log are off
EngineSet == {[exp |-> 0, log |-> 0], [exp |-> 1, log |-> -1]}

\* script.js lines 21-24
ProjectDefaults ==
    [startYear |-> Int2Rat(2026), totalHashratePH |-> Zero, totalCapex |-> Zero,
     totalOpex |-> Zero]

EmptyStorage ==
    [totalCapex |-> NaN, totalOpex |-> NaN, totalHashratePH |-> NaN, startYear |-> NaN,
     gpLpSplit |-> "", totalLpCapital |-> NaN, networkHashrate |-> NaN,
     difficultyGrowth |-> NaN, uptime |-> NaN]

NoRun ==
    [seq |-> 0, cfg |-> null, alert |-> "", randomCalls |-> 0, stored |-> FALSE,
     btcPaths |-> <<>>]

MStart ==
    /\ projectData = ProjectDefaults
    /\ localStorage = EmptyStorage
    /\ simulationResults = null
    /\ mcInstructions = "block"
    /\ mcResults = "none"
    /\ page = NoPage
    /\ lastRun = NoRun

NoOut == [called |-> FALSE, paths |-> <<>>, calls |-> 0]
NoBuy == [called |-> FALSE, investorCapital |-> Zero, roi |-> <<>>]
NoStat == [op |-> "none"]

HArgs(S0, target, mu, sigma, years, numPaths, given, m, calibrated) ==
    [S0 |-> S0, target |-> target, mu |-> mu, sigma |-> sigma, years |-> years,
     numPaths |-> numPaths, correlatedRandom |-> [given |-> given, m |-> m],
     calibrated |-> calibrated]

HStart ==
    /\ hArgs = HArgs(One, One, LZero, LZero, 0, 0, FALSE, <<>>, FALSE)
    /\ hOut = NoOut
    /\ hBuy = NoBuy

SStart ==
    /\ sData = <<>>
    /\ sOut = NoStat

NoArgs == [btcPaths |-> <<>>, investorCapital |-> One, years |-> 0]
NoCall == [op |-> "none"]

RStart ==
    /\ rArgs = NoArgs
    /\ rOut = NoCall

NStart == nOut = NoCall

\* no call of runMonteCarloSimulation is under way
Idle == [pc |-> "idle"]

PStart == run = Idle

CStart == cOut = NoCall
QStart == qOut = NoCall

\* exportMCData has not been called
NoExport == [op |-> "none", alert |-> "", rows |-> <<>>, downloaded |-> FALSE]
XStart == csv = NoExport

\* script.js lines 19-28 and the page as index.html has it: step 1 shown, no
\* project, no miner, no script injected, no step content loaded.
\* content[s]: what the container of step s holds; financial:
\* loadedScripts.financial; script: the state of the financial.js element;
\* injected: the script elements appended for financial.js; awaiting: the
\* calls of loadStep5Content waiting for their fetch; event: the handler
\* that ran last; loadStep5: its last invocation.
NoEvent == [op |-> "none"]
NotInvoked == [invoked |-> FALSE]
GStart ==
    nav = [currentStep |-> 1, activeTab |-> 1, totalCapex |-> 0, totalOpex |-> 0,
           miners |-> 0, alert |-> "", content |-> [s \in 5..7 |-> ""],
           financial |-> FALSE, script |-> "none", injected |-> 0, awaiting |-> 0,
           event |-> NoEvent, loadStep5 |-> NotInvoked]

\* =================================================================
\* The application: the project is configured, simulations are run.
\* =================================================================
\* the parsed fields of a form that passes every check of the code
BaseConfig ==
    [numSims |-> Int2Rat(100), projectionYears |-> Int2Rat(2),
     btcStartPrice |-> One, btcTargetPrice |-> <<2, 1>>,
     btcVolatility |-> LLn2(Hundred),
     hashStartPrice |-> NaN, hashTargetPrice |-> NaN, hashVolatility |-> LNaN,
     investorCapital |-> One]

\* forms whose every field is in its range
ValidConfigSet ==
    {BaseConfig,
     [BaseConfig EXCEPT !.projectionYears = Int2Rat(1), !.btcVolatility = LZero,
                        !.investorCapital = <<3, 1>>]}

\* one field of BaseConfig replaced by a value outside its range
FaultyConfigSet ==
    {[BaseConfig EXCEPT !.numSims = x] : x \in {Int2Rat(99), Int2Rat(10001)}}
    \cup {[BaseConfig EXCEPT !.projectionYears = x] : x \in {Zero, Int2Rat(-1)}}
    \cup {[BaseConfig EXCEPT !.btcStartPrice = x] : x \in {Zero}}
    \cup {[BaseConfig EXCEPT !.btcTargetPrice = x] : x \in {Int2Rat(-2)}}
    \cup {[BaseConfig EXCEPT !.btcVolatility = x] : x \in {LNaN, LLn2(Int2Rat(-100))}}
    \cup {[BaseConfig EXCEPT !.investorCapital = x] : x \in {NaN, Int2Rat(-1)}}

ConfigSet == ValidConfigSet \cup FaultyConfigSet

\* what randomNormal() returns, call after call (repeated cyclically)
SeedSet == {<<LOne, LZero, LRat(<<-1, 1>>)>>, <<LZero, LOne, LOne, LRat(<<-1, 1>>), LZero>>}

ConfiguredProject ==
    [startYear |-> Int2Rat(2027), totalHashratePH |-> Int2Rat(6), totalCapex |-> <<2, 1>>,
     totalOpex |-> <<1, 10>>]

\* the project and storage contents the model visits: nothing configured,
\* miners without equipment cost, an owner-operator, a GP/LP structure
StoreSet ==
    { <<ProjectDefaults, EmptyStorage>>,
      <<[ProjectDefaults EXCEPT !.totalHashratePH = Int2Rat(6)], EmptyStorage>>,
      <<ConfiguredProject, EmptyStorage>>,
      <<ConfiguredProject,
        [EmptyStorage EXCEPT !.gpLpSplit = "40-60", !.totalLpCapital = Int2Rat(4)]>> }

\* the forms that pass the checks of lines 128-151
PassingConfigSet == {cfg \in ConfigSet : validationAlert(cfg) = ""}

\* lines 155-203 for every form, random source and engine of the model,
\* each evaluated once
PathTable ==
    [k \in PassingConfigSet \X SeedSet \X EngineSet |->
        generatePaths(k[1], k[2], k[3])] @@ <<>>

\* lines 155-215 for every form, random source, engine and project of the
\* model, each evaluated once
RunTable ==
    [k \in PassingConfigSet \X SeedSet \X EngineSet \X StoreSet |->
        simulateWithPaths(k[1], PathTable[<<k[1], k[2], k[3]>>], k[4][1], k[4][2])] @@ <<>>

\* how many calls of runMonteCarloSimulation a behaviour holds
MaxRuns == 2

\* steps 1-5 of the application set the project and the storage
ConfigureProject ==
    /\ \E st \in StoreSet :
         /\ projectData' = st[1]
         /\ localStorage' = st[2]
    /\ UNCHANGED <<simulationResults, mcInstructions, mcResults, page, lastRun>>
    /\ csv' = NoExport
    /\ UNCHANGED <<engine, hvars, svars, rvars, nvars, pvars, cvars, qvars, gvars>>

\* lines 104-229: what a call with the form cfg does
runMonteCarloSimulation(cfg, fresh, eng, pd, ls) ==
    IF validationAlert(cfg) # ""
    THEN [passed |-> FALSE, alert |-> validationAlert(cfg)]
    ELSE [passed |-> TRUE, run |-> RunTable[<<cfg, fresh, eng, <<pd, ls>>>>]]

\* lines 104-229, the form holding cfg.  chartOk: the charts of line 544
\* can be created; when they cannot, displayResults throws there and the
\* catch of lines 220-228 runs.
RunMonteCarloSimulation ==
    /\ lastRun.seq < MaxRuns
    /\ \E cfg \in ConfigSet, fresh \in SeedSet :
         \E r \in {runMonteCarloSimulation(cfg, fresh, engine, projectData, localStorage)} :
            IF ~r.passed
            THEN /\ lastRun' = [seq |-> lastRun.seq + 1, cfg |-> cfg, alert |-> r.alert,
                                randomCalls |-> 0, stored |-> FALSE, btcPaths |-> <<>>]
                 /\ UNCHANGED <<simulationResults, mcInstructions, mcResults, page>>
            ELSE \E chartOk \in BOOLEAN :
                 /\ simulationResults' = r.run.results
                 /\ page' = IF chartOk THEN r.run.shown
                            ELSE [page EXCEPT !.summary = r.run.shown.summary]
                 /\ mcInstructions' = IF chartOk THEN "none" ELSE "block"
                 /\ mcResults' = IF chartOk THEN "block" ELSE "none"
                 /\ lastRun' = [seq |-> lastRun.seq + 1, cfg |-> cfg,
                                alert |-> IF chartOk THEN "" ELSE "Simulation error",
                                randomCalls |-> r.run.randomCalls, stored |-> TRUE,
                                btcPaths |-> r.run.btcPaths]
    /\ UNCHANGED <<projectData, localStorage>>
    /\ csv' = NoExport
    /\ UNCHANGED <<engine, hvars, svars, rvars, nvars, pvars, cvars, qvars, gvars>>

\* ------------------------------------------------- exportMCData
\* lines 903-905 labelling a row 'Mine' when the mine ROI is the larger
csvRowLabelledByMineWin(i, buy, mine) ==
    [simulation |-> i, winner |-> IF RGt(mine, buy) THEN "Mine" ELSE "Buy"]

\* lines 903-905: the columns Simulation and Winner of the row of path i
\* (counted from 1); the two ROI columns are not kept
csvRow(i, buy, mine) ==
    [simulation |-> i, winner |-> IF RGt(buy, mine) THEN "Buy" ELSE "Mine"]

\* lines 894-918 emitting the header alone
exportMCDataWithoutRows(sr) ==
    IF sr = null
    THEN [alert |-> "No simulation data to export. Please run a simulation first.",
          downloaded |-> FALSE, rows |-> <<>>]
    ELSE [alert |-> "", downloaded |-> TRUE, rows |-> <<>>]

\* lines 894-918, sr being simulationResults; rows: the lines of the CSV
\* after the header, downloaded: the file was offered for download
exportMCData(sr) ==
    IF sr = null
    THEN [alert |-> "No simulation data to export. Please run a simulation first.",
          downloaded |-> FALSE, rows |-> <<>>]
    ELSE [alert |-> "", downloaded |-> TRUE,
          rows |-> [i \in 1..Len(sr.buyResults) |->
                      csvRow(i, NumAt(sr.buyResults, i - 1), NumAt(sr.mineResults, i - 1))]
                   \o <<>>]

\* lines 894-918: the button "Export Data"
ExportMCData ==
    /\ \E r \in {exportMCData(simulationResults)} :
         csv' = [op |-> "exportMCData", alert |-> r.alert, rows |-> r.rows,
                 downloaded |-> r.downloaded]
    /\ UNCHANGED <<engine, mvars, hvars, svars, rvars, nvars, pvars, cvars, qvars, gvars>>

Init ==
    /\ engine \in EngineSet
    /\ MStart /\ HStart /\ SStart /\ RStart /\ NStart /\ PStart
    /\ CStart /\ QStart /\ XStart /\ GStart

Next == ConfigureProject \/ RunMonteCarloSimulation \/ ExportMCData

Spec == Init /\ [][Next]_vars

\* =================================================================
\* The path simulator on its own: arguments from bounded sets.
\* =================================================================
\* the largest draw matrix: numPaths * years <= MaxCells
MaxCells == 4

StartSet == {One, <<2, 1>>}
TargetSet == {One, <<2, 1>>, <<3, 1>>}
SigmaSet == {LZero, LLn2(One)}
FreeMuSet == {LHalf}
CapitalSet == {One, <<3, 1>>}
FreshSet == {<<LOne>>, <<LZero, LRat(<<-1, 1>>)>>}

HShapes == {s \in (1..MaxCells) \X (1..MaxCells) : s[1] * s[2] <= MaxCells}

HInit ==
    /\ engine \in EngineSet
    /\ \E S0 \in StartSet, sigma \in SigmaSet, s \in HShapes, given \in BOOLEAN :
         \E m \in IF given THEN [1..s[1] -> [1..s[2] -> DrawSet]] ELSE {<<>>} :
            \/ \E target \in TargetSet :
                  hArgs = HArgs(S0, target,
                                calibrateDrift(target, S0, Int2Rat(s[2]), sigma, engine),
                                sigma, s[2], s[1], given, m, TRUE)
            \/ \E mu \in FreeMuSet :
                  hArgs = HArgs(S0, S0, mu, sigma, s[2], s[1], given, m, FALSE)
    /\ hOut = NoOut
    /\ hBuy = NoBuy
    /\ MStart /\ SStart /\ RStart /\ NStart /\ PStart
    /\ CStart /\ QStart /\ XStart /\ GStart

\* a call of generateGBMPaths with the arguments of hArgs
HGenerate ==
    /\ ~hBuy.called
    /\ \E fresh \in FreshSet :
         LET r == generateGBMPaths(hArgs.S0, hArgs.mu, hArgs.sigma, hArgs.years,
                                   hArgs.numPaths, hArgs.correlatedRandom, fresh, engine)
         IN  hOut' = [called |-> TRUE, paths |-> r.paths, calls |-> r.calls]
    /\ UNCHANGED <<hArgs, hBuy>>
    /\ UNCHANGED <<engine, mvars, svars, rvars, nvars, pvars, cvars, qvars, xvars, gvars>>

\* the buy strategy on every generated path, where the terminal prices are
\* rational
HEvaluateBuy ==
    /\ hOut.called
    /\ ~hBuy.called
    /\ \A i \in 1..Len(hOut.paths) :
          LET p == PathAt(hOut.paths[i], hArgs.years) IN PIsNaN(p) \/ PIsRat(p)
    /\ \E cap \in CapitalSet :
         hBuy' = [called |-> TRUE, investorCapital |-> cap,
                  roi |-> [i \in 1..Len(hOut.paths) |->
                             buyROI(hOut.paths[i], cap, hArgs.years)]]
    /\ UNCHANGED <<hArgs, hOut>>
    /\ UNCHANGED <<engine, mvars, svars, rvars, nvars, pvars, cvars, qvars, xvars, gvars>>

HNext == HGenerate \/ HEvaluateBuy

SpecGBM == HInit /\ [][HNext]_vars

\* =================================================================
\* The statistics functions on their own: outcome sequences from bounded sets.
\* =================================================================
\* the longest outcome sequence
MaxLen == 5
\* the longest pair of outcome sequences compared for win rates
MaxPairs == 3

RoiSet == {<<-50, 1>>, Zero, <<200, 1>>}
PercentSet == {10, 25, 50, 75, 90}

\* the statistics functions call neither Math.exp nor Math.log
SInit ==
    /\ engine = [exp |-> 0, log |-> 0]
    /\ \E n \in 1..MaxLen : sData \in [1..n -> RoiSet]
    /\ sOut = NoStat
    /\ MStart /\ HStart /\ RStart /\ NStart /\ PStart
    /\ CStart /\ QStart /\ XStart /\ GStart

SCreateHistogram ==
    /\ sOut' = [op |-> "createHistogram", hist |-> createHistogram(sData, numBins)]
    /\ UNCHANGED sData
    /\ UNCHANGED <<engine, mvars, hvars, rvars, nvars, pvars, cvars, qvars, xvars, gvars>>

SPercentile ==
    /\ \E p \in PercentSet :
         \E c \in {percentileCall(sData, p)} :
           /\ sOut' = [op |-> "percentile", p |-> p, value |-> c.value]
           /\ sData' = c.arr
    /\ UNCHANGED <<engine, mvars, hvars, rvars, nvars, pvars, cvars, qvars, xvars, gvars>>

\* the win-rate loop of displayResults on sData and a second sequence of the
\* same length
SWinRates ==
    /\ Len(sData) <= MaxPairs
    /\ \E mine \in [1..Len(sData) -> RoiSet] :
         sOut' = [op |-> "winRates", mineResults |-> mine,
                  rates |-> winRates(sData, mine, Len(sData))]
    /\ UNCHANGED sData
    /\ UNCHANGED <<engine, mvars, hvars, rvars, nvars, pvars, cvars, qvars, xvars, gvars>>

\* the outcomes of mining: the ROI is Infinity when the difficulty factor is
\* zero (lines 345-351)
OutcomeSet == RoiSet \cup {PosInf}

\* the statistics of one strategy, as the first call of a behaviour
SStrategyStats ==
    /\ sOut.op = "none"
    /\ \E c \in {statsCalls(sData)} :
         /\ sOut' = [op |-> "stats", stats |-> c.stats]
         /\ sData' = c.arr
    /\ UNCHANGED <<engine, mvars, hvars, rvars, nvars, pvars, cvars, qvars, xvars, gvars>>

\* the statistics and the win-rate loop of displayResults on sData, which is
\* also what line 211 stored, and a second sequence of the same length, as
\* the first call of a behaviour
SDisplayStatistics ==
    /\ sOut.op = "none"
    /\ Len(sData) <= MaxPairs
    /\ \E mine \in [1..Len(sData) -> OutcomeSet] :
         \E d \in {displayStatistics(sData, mine, Len(sData))} :
           /\ sOut' = [op |-> "displayResults", mineResults |-> mine,
                       mineAfter |-> d.mineResults, stats |-> d.stats, rates |-> d.rates]
           /\ sData' = d.buyResults
    /\ UNCHANGED <<engine, mvars, hvars, rvars, nvars, pvars, cvars, qvars, xvars, gvars>>

SNext == SCreateHistogram \/ SPercentile \/ SWinRates \/ SDisplayStatistics \/ SStrategyStats

SpecStats == SInit /\ [][SNext]_vars

\* =================================================================
\* The evaluator on its own: runSimulations called with paths from bounded
\* sets, the project and the storage set between calls.
\* =================================================================
\* the most paths of a call: more than the sample retains
MaxPaths == 11
\* the longest horizon
MaxYears == 3

\* the path counts of the model
PathCountSet == {1, 2, MaxPaths}
\* how the prices of the paths vary
ShapeSet == {1, 2}

\* price t of path i (both from 1) for a shape: 1, 2 or 3
PriceOfShape(shape, i, t) == PRat(Int2Rat(1 + ((shape * i + t) % 3)))

\* n paths of years + 1 prices
PathsOfShape(shape, n, years) ==
    [i \in 1..n |-> [t \in 1..(years + 1) |-> PriceOfShape(shape, i, t)] \o <<>>] \o <<>>

RCapitalSet == {One, <<8, 1>>}

\* financial.js lines 44-46 write totalLpCapital and gpLpSplit; the keys of
\* lines 292-294 are written by no code of the application and hold what the
\* origin's storage was given
RStoreSet ==
    { <<ProjectDefaults, EmptyStorage>>,
      <<ConfiguredProject, EmptyStorage>>,
      <<ConfiguredProject,
        [EmptyStorage EXCEPT !.gpLpSplit = "40-60", !.totalLpCapital = Int2Rat(4)]>>,
      <<ConfiguredProject,
        [EmptyStorage EXCEPT !.gpLpSplit = "100-0", !.totalLpCapital = Int2Rat(4)]>>,
      <<ConfiguredProject,
        [EmptyStorage EXCEPT !.networkHashrate = Int2Rat(500),
                             !.difficultyGrowth = <<1, 10>>, !.uptime = <<9, 10>>]>>,
      <<ConfiguredProject, [EmptyStorage EXCEPT !.difficultyGrowth = Int2Rat(-1)]>>,
      <<ConfiguredProject,
        [EmptyStorage EXCEPT !.networkHashrate = Int2Rat(-5), !.uptime = Int2Rat(2)]>> }

RInit ==
    /\ engine = [exp |-> 0, log |-> 0]
    /\ \E st \in RStoreSet :
         /\ projectData = st[1]
         /\ localStorage = st[2]
    /\ simulationResults = null
    /\ mcInstructions = "block"
    /\ mcResults = "none"
    /\ page = NoPage
    /\ lastRun = NoRun
    /\ \E n \in PathCountSet, shape \in ShapeSet, years \in 1..MaxYears,
          investorCapital \in RCapitalSet :
         rArgs = [btcPaths |-> PathsOfShape(shape, n, years),
                  investorCapital |-> investorCapital, years |-> years]
    /\ rOut = NoCall
    /\ HStart /\ SStart /\ NStart /\ PStart
    /\ CStart /\ QStart /\ XStart /\ GStart

\* the project or the storage is changed between two calls
RConfigure ==
    /\ \E st \in RStoreSet :
         /\ projectData' = st[1]
         /\ localStorage' = st[2]
    /\ UNCHANGED <<simulationResults, mcInstructions, mcResults, page, lastRun>>
    /\ UNCHANGED <<engine, hvars, svars, rvars, nvars, pvars, cvars, qvars, xvars, gvars>>

\* how a call differs from the call before it, whose record is out: in the
\* secondary series, in the project and storage, in both or in nothing
DifferenceFrom(out, hashPaths, pd, ls) ==
    IF out.op # "runSimulations" THEN "first"
    ELSE IF out.pd = pd /\ out.ls = ls
         THEN (IF out.given = hashPaths THEN "nothing" ELSE "secondary")
         ELSE (IF out.given = hashPaths THEN "project" ELSE "both")

\* a call of runSimulations with the arguments of rArgs and a secondary
\* series; rOut keeps what the call was given and what it returned
RRunSimulations ==
    /\ \E shape \in ShapeSet :
         \E e \in {runSimulationsEffect(rArgs.btcPaths,
                                        PathsOfShape(shape, Len(rArgs.btcPaths), rArgs.years),
                                        rArgs.investorCapital, rArgs.years,
                                        projectData, localStorage, simulationResults)} :
            /\ rOut' = [op |-> "runSimulations", hashPaths |-> e.hashPaths,
                        given |-> PathsOfShape(shape, Len(rArgs.btcPaths), rArgs.years),
                        pd |-> projectData, ls |-> localStorage,
                        differs |-> DifferenceFrom(rOut,
                            PathsOfShape(shape, Len(rArgs.btcPaths), rArgs.years),
                            projectData, localStorage),
                        returned |-> e.returned]
            /\ rArgs' = [rArgs EXCEPT !.btcPaths = e.btcPaths]
            /\ projectData' = e.projectData
            /\ localStorage' = e.localStorage
            /\ simulationResults' = e.simulationResults
    /\ UNCHANGED <<mcInstructions, mcResults, page, lastRun>>
    /\ UNCHANGED <<engine, hvars, svars, nvars, pvars, cvars, qvars, xvars, gvars>>

RNext == RConfigure \/ RRunSimulations

SpecSim == RInit /\ [][RNext]_vars

\* =================================================================
\* calculateNetworkShare on its own: arguments from bounded sets, each call
\* made for two growth rates.
\* =================================================================
MinerSet == {Zero, Int2Rat(6)}
NetworkSet == {Int2Rat(-5), Zero, Int2Rat(600)}
GrowthSet == {Int2Rat(-2), Int2Rat(-1), Zero, <<1, 20>>, <<1, 10>>, One}

NInit ==
    /\ engine = [exp |-> 0, log |-> 0]
    /\ nOut = NoCall
    /\ MStart /\ HStart /\ SStart /\ RStart /\ PStart
    /\ CStart /\ QStart /\ XStart /\ GStart

NCalculateNetworkShare ==
    /\ \E miner \in MinerSet, network \in NetworkSet, year \in 1..MaxYears,
          g \in GrowthSet, h \in GrowthSet :
         /\ RLt(g, h)
         /\ nOut' = [op |-> "calculateNetworkShare", minerHashratePH |-> miner,
                     networkHashrateEH |-> network, year |-> year,
                     growth |-> <<g, h>>,
                     share |-> <<calculateNetworkShare(miner, network, g, year),
                                 calculateNetworkShare(miner, network, h, year)>>]
    /\ UNCHANGED <<engine, mvars, hvars, svars, rvars, pvars, cvars, qvars, xvars, gvars>>

NNext == NCalculateNetworkShare

SpecNet == NInit /\ [][NNext]_vars

\* =================================================================
\* A call of runMonteCarloSimulation statement by statement: run.pc is the
\* statement the call is at.
\* =================================================================
\* lines 104-165: the form is read and checked; a form that passes starts
\* the run
PRead ==
    /\ run.pc = "idle"
    /\ \E cfg \in ConfigSet, fresh \in SeedSet :
         IF validationAlert(cfg) # ""
         THEN /\ run' = [pc |-> "idle", alert |-> validationAlert(cfg)]
              /\ UNCHANGED <<mcInstructions, mcResults>>
         ELSE /\ run' = [pc |-> "generateCorrelatedRandoms", cfg |-> cfg, fresh |-> fresh,
                         randomCalls |-> 0,
                         correlatedRandoms |-> [z1 |-> <<>>, z2 |-> <<>>],
                         btcPaths |-> <<>>, hashPaths |-> <<>>, results |-> null,
                         alert |-> ""]
              /\ mcInstructions' = "none"
              /\ mcResults' = "block"
    /\ UNCHANGED <<projectData, localStorage, simulationResults, page, lastRun>>
    /\ UNCHANGED <<engine, hvars, svars, rvars, nvars, cvars, qvars, xvars, gvars>>

\* line 178
PGenerateCorrelatedRandoms ==
    /\ run.pc = "generateCorrelatedRandoms"
    /\ \E r \in {generateCorrelatedRandoms(run.cfg.numSims[1], run.cfg.projectionYears[1],
                                           correlation, run.fresh)} :
         run' = [run EXCEPT !.pc = "btcPaths",
                            !.correlatedRandoms = [z1 |-> r.z1, z2 |-> r.z2],
                            !.randomCalls = @ + r.calls]
    /\ UNCHANGED <<engine, mvars, hvars, svars, rvars, nvars, cvars, qvars, xvars, gvars>>

\* lines 183-190
PGenerateBtcPaths ==
    /\ run.pc = "btcPaths"
    /\ \E r \in {generateBtcPaths(run.cfg, run.correlatedRandoms.z1, run.fresh, engine)} :
         run' = [run EXCEPT !.pc = "hashPaths", !.btcPaths = r.paths,
                            !.randomCalls = @ + r.calls]
    /\ UNCHANGED <<engine, mvars, hvars, svars, rvars, nvars, cvars, qvars, xvars, gvars>>

\* lines 195-202
PGenerateHashPaths ==
    /\ run.pc = "hashPaths"
    /\ \E r \in {generateHashPaths(run.cfg, run.correlatedRandoms.z2, run.fresh, engine)} :
         run' = [run EXCEPT !.pc = "runSimulations", !.hashPaths = r.paths,
                            !.randomCalls = @ + r.calls]
    /\ UNCHANGED <<engine, mvars, hvars, svars, rvars, nvars, cvars, qvars, xvars, gvars>>

\* line 207
PRunSimulations ==
    /\ run.pc = "runSimulations"
    /\ run' = [run EXCEPT !.pc = "store",
                          !.results = runSimulations(run.btcPaths, run.hashPaths,
                                                     run.cfg.investorCapital,
                                                     run.cfg.projectionYears[1],
                                                     projectData, localStorage)]
    /\ UNCHANGED <<engine, mvars, hvars, svars, rvars, nvars, cvars, qvars, xvars, gvars>>

\* line 211
PStoreResults ==
    /\ run.pc = "store"
    /\ simulationResults' = run.results
    /\ run' = [run EXCEPT !.pc = "displayResults"]
    /\ UNCHANGED <<projectData, localStorage, mcInstructions, mcResults, page, lastRun>>
    /\ UNCHANGED <<engine, hvars, svars, rvars, nvars, cvars, qvars, xvars, gvars>>

\* lines 215-228: when the charts of line 544 cannot be created
\* displayResults throws there and the catch runs
PDisplayResults ==
    /\ run.pc = "displayResults"
    /\ \E shown \in {displayResults(run.results, run.cfg.numSims[1])}, chartOk \in BOOLEAN :
         /\ page' = IF chartOk THEN shown ELSE [page EXCEPT !.summary = shown.summary]
         /\ mcInstructions' = IF chartOk THEN "none" ELSE "block"
         /\ mcResults' = IF chartOk THEN "block" ELSE "none"
         /\ run' = [run EXCEPT !.pc = "done",
                               !.alert = IF chartOk THEN "" ELSE "Simulation error"]
    /\ UNCHANGED <<projectData, localStorage, simulationResults, lastRun>>
    /\ UNCHANGED <<engine, hvars, svars, rvars, nvars, cvars, qvars, xvars, gvars>>

PInit ==
    /\ engine \in EngineSet
    /\ \E st \in StoreSet :
         /\ projectData = st[1]
         /\ localStorage = st[2]
    /\ simulationResults = null
    /\ mcInstructions = "block"
    /\ mcResults = "none"
    /\ page = NoPage
    /\ lastRun = NoRun
    /\ run = Idle
    /\ HStart /\ SStart /\ RStart /\ NStart
    /\ CStart /\ QStart /\ XStart /\ GStart

PNext ==
    \/ PRead \/ PGenerateCorrelatedRandoms \/ PGenerateBtcPaths \/ PGenerateHashPaths
    \/ PRunSimulations \/ PStoreResults \/ PDisplayResults

SpecRun == PInit /\ [][PNext]_vars

\* =================================================================
\* generateCorrelatedRandoms on its own: shape, correlation and the values
\* of randomNormal() from bounded sets.
\* =================================================================
\* correlations: none, the 0.7 of line 177, 3/5, total, and one outside [-1, 1]
RhoSet == {Zero, <<7, 10>>, <<3, 5>>, One, Int2Rat(-1), <<2, 1>>}

\* what randomNormal() returns, call after call (repeated cyclically)
CorSeedSet ==
    {<<a, b, c, d>> : a \in {LZero, LOne}, b \in {LZero, LOne, LRat(<<-1, 1>>)},
                      c \in {LOne, LHalf}, d \in {LZero, LRat(<<-1, 1>>)}}

CInit ==
    /\ engine = [exp |-> 0, log |-> 0]
    /\ cOut = NoCall
    /\ MStart /\ HStart /\ SStart /\ RStart /\ NStart /\ PStart
    /\ QStart /\ XStart /\ GStart

\* one call per behaviour
CGenerateCorrelatedRandoms ==
    /\ cOut.op = "none"
    /\ \E numPaths \in 0..MaxCells, numSteps \in 0..MaxCells, rho \in RhoSet,
          fresh \in CorSeedSet :
         /\ numPaths * numSteps <= MaxCells
         /\ cOut' = [op |-> "generateCorrelatedRandoms", numPaths |-> numPaths,
                     numSteps |-> numSteps, rho |-> rho, fresh |-> fresh,
                     returned |-> generateCorrelatedRandoms(numPaths, numSteps, rho, fresh)]
    /\ UNCHANGED <<engine, mvars, hvars, svars, rvars, nvars, pvars, qvars, xvars, gvars>>

CNext == CGenerateCorrelatedRandoms

SpecCor == CInit /\ [][CNext]_vars

\* =================================================================
\* The mining calculation of the three modules side by side: the Monte Carlo
\* evaluator (montecarlo.js), the investor analysis of Step 6 (investor.js)
\* and the deterministic projection of Step 5 (financial.js), given the same
\* parameters and a horizon of five years.
\* =================================================================
\* the horizon of investor.js line 157 and financial.js line 186
StepYears == 5

QHashrateSet == {Zero, Int2Rat(6)}
QNetworkSet == {Int2Rat(600), Int2Rat(1000)}
QGrowthSet == {Zero, Half, One}
QUptimeSet == {<<24, 25>>, Half}
\* start years: the halving out of the horizon, in its last year, in its
\* third year, in its first year
QStartYearSet == {2023, 2024, 2026, 2028}
QCapexSet == {Zero, <<2, 1>>}
QOpexSet == {Zero, <<1, 10>>}
QSplitSet == {"40-60", "100-0"}
QLpCapitalSet == {Zero, Int2Rat(4)}
QPriceSet == {One, <<3, 1>>}

\* what the loop of montecarlo.js lines 338-353 computes, when line 334 lets it run
inlineBtcMined(mp) ==
    IF miningConfigured(mp)
    THEN [computed |-> TRUE,
          btcMined |-> [year \in 1..StepYears |-> btcMinedFrom(year, year, mp)],
          totalBtcMined |-> btcMinedFrom(1, StepYears, mp)]
    ELSE [computed |-> FALSE]

QInit ==
    /\ engine = [exp |-> 0, log |-> 0]
    /\ qOut = NoCall
    /\ MStart /\ HStart /\ SStart /\ RStart /\ NStart /\ PStart
    /\ CStart /\ XStart /\ GStart

\* one calculation per behaviour
QCalculate ==
    /\ qOut.op = "none"
    /\ \E hashrate \in QHashrateSet, network \in QNetworkSet, growth \in QGrowthSet,
          uptime \in QUptimeSet, startYear \in QStartYearSet, capex \in QCapexSet,
          opex \in QOpexSet, split \in QSplitSet, lpCapital \in QLpCapitalSet,
          price \in QPriceSet :
         \E pd \in {[startYear |-> Int2Rat(startYear), totalHashratePH |-> hashrate,
                     totalCapex |-> capex, totalOpex |-> opex]},
            inputs \in {[networkHashrateEH |-> network, difficultyGrowth |-> growth,
                         uptime |-> uptime]} :
           \E mp \in {[totalCapex |-> capex, annualOpex |-> opex,
                       totalHashratePH |-> hashrate, startYear |-> Int2Rat(startYear),
                       structure |-> investmentStructure(split, lpCapital, One),
                       networkHashrateEH |-> network, difficultyGrowth |-> growth,
                       uptime |-> uptime]} :
             qOut' = [op |-> "mining", projectData |-> pd, inputs |-> inputs,
                      splitValue |-> split, totalLpCapital |-> lpCapital,
                      investorCapital |-> One, finalPrice |-> price, parameters |-> mp,
                      inline |-> inlineBtcMined(mp),
                      mineROI |-> mineROI([t \in 1..(StepYears + 1) |-> PRat(price)], One,
                                          StepYears, mp),
                      projections |-> calculateYearlyProjections(inputs, pd),
                      lpMiningReturns |->
                          calculateLpMiningReturns(price, growth, uptime,
                              [y \in 1..StepYears |-> price],
                              getInvestmentStructure(split, lpCapital, One, capex),
                              pd, network)]
    /\ UNCHANGED <<engine, mvars, hvars, svars, rvars, nvars, pvars, cvars, xvars, gvars>>

QNext == QCalculate

SpecMine == QInit /\ [][QNext]_vars

\* =================================================================
\* Navigation between the steps (script.js): the totals and the miner list
\* change, switchStep is called, the fetches and the script load complete
\* in any order.
\* =================================================================
\* the most miners in the list
MaxMiners == 2
\* the most calls of loadStep5Content waiting for their fetch at a time
MaxFetches == 2

CapexSet == {0, 2}
OpexSet == {0, 1}
StepSet == 1..7

\* line 74 blocking a step only when CAPEX, OPEX and the miners are all missing
stepBlockedWhenAllMissing(step, n) ==
    /\ step = 5 \/ step = 6 \/ step = 7
    /\ n.totalCapex = 0 /\ n.totalOpex = 0 /\ n.miners = 0

\* line 74
stepBlocked(step, n) ==
    /\ step = 5 \/ step = 6 \/ step = 7
    /\ n.totalCapex = 0 \/ n.totalOpex = 0 \/ n.miners = 0

\* lines 116-118, 143-145, 170-172: a content loader up to its first await
startLoad(step, n) ==
    [n EXCEPT !.content[step] = "loading",
              !.awaiting = IF step = 5 THEN @ + 1 ELSE @]

\* lines 72-109; steps 1 to 4 refresh fields that are not modelled
switchStep(step, n) ==
    IF stepBlocked(step, n)
    THEN [n EXCEPT !.alert = "Complete Steps 2-4 first."]
    ELSE LET shown == [n EXCEPT !.activeTab = step, !.currentStep = step, !.alert = ""]
         IN  IF step >= 5 THEN startLoad(step, shown) ELSE shown

\* loadStep5() as the page resolves it when it is called: financial.js
\* redefines the function of script.js lines 221-226 once it has run
\* (financial.js lines 4-9); before that calculateFinancialsInternal is not
\* defined and line 225 throws a ReferenceError
loadStep5(n) ==
    IF n.script = "loaded"
    THEN [n EXCEPT !.loadStep5 = [invoked |-> TRUE, definition |-> "financial.js",
                                   moduleLoaded |-> TRUE, threw |-> FALSE],
                   !.alert = IF n.totalCapex <= 0
                             THEN "Please complete Steps 1-4 before viewing financial analysis."
                             ELSE ""]
    ELSE [n EXCEPT !.loadStep5 = [invoked |-> TRUE, definition |-> "script.js",
                                   moduleLoaded |-> FALSE, threw |-> TRUE]]

\* lines 119-140: loadStep5Content from the fetch on, the response being ok
step5Fetched(n) ==
    LET shown == [n EXCEPT !.content[5] = "Step5.html", !.awaiting = @ - 1, !.alert = ""]
    IN  IF ~shown.financial
        THEN [shown EXCEPT !.financial = TRUE, !.script = "loading", !.injected = @ + 1]
        ELSE LET called == loadStep5(shown)
             IN  IF called.loadStep5.threw
                 THEN [called EXCEPT !.content[5] = "Error loading Step 5"]
                 ELSE called

GInit ==
    /\ engine = [exp |-> 0, log |-> 0]
    /\ GStart
    /\ MStart /\ HStart /\ SStart /\ RStart /\ NStart /\ PStart
    /\ CStart /\ QStart /\ XStart

\* line 466
GCalculateCapex ==
    /\ \E total \in CapexSet :
         nav' = [nav EXCEPT !.totalCapex = total, !.alert = "",
                            !.event = [op |-> "calculateCapex"]]
    /\ UNCHANGED <<engine, mvars, hvars, svars, rvars, nvars, pvars, cvars, qvars, xvars>>

\* line 545
GCalculateAnnualOpex ==
    /\ \E totalAnnual \in OpexSet :
         nav' = [nav EXCEPT !.totalOpex = totalAnnual, !.alert = "",
                            !.event = [op |-> "calculateAnnualOpex"]]
    /\ UNCHANGED <<engine, mvars, hvars, svars, rvars, nvars, pvars, cvars, qvars, xvars>>

\* lines 313, 348
GAddMiner ==
    /\ nav.miners < MaxMiners
    /\ nav' = [nav EXCEPT !.miners = @ + 1, !.alert = "", !.event = [op |-> "addMiner"]]
    /\ UNCHANGED <<engine, mvars, hvars, svars, rvars, nvars, pvars, cvars, qvars, xvars>>

\* lines 357, 419
GDeleteMiner ==
    /\ nav.miners > 0
    /\ nav' = [nav EXCEPT !.miners = @ - 1, !.alert = "", !.event = [op |-> "deleteMiner"]]
    /\ UNCHANGED <<engine, mvars, hvars, svars, rvars, nvars, pvars, cvars, qvars, xvars>>

GSwitchStep ==
    /\ nav.awaiting < MaxFetches
    /\ \E step \in StepSet :
         nav' = [switchStep(step, nav) EXCEPT !.event = [op |-> "switchStep", step |-> step]]
    /\ UNCHANGED <<engine, mvars, hvars, svars, rvars, nvars, pvars, cvars, qvars, xvars>>

\* the fetch of one waiting call resolves with Step5.html
GStep5Fetched ==
    /\ nav.awaiting > 0
    /\ nav' = [step5Fetched(nav) EXCEPT !.event = [op |-> "step5Fetched"]]
    /\ UNCHANGED <<engine, mvars, hvars, svars, rvars, nvars, pvars, cvars, qvars, xvars>>

\* the fetch of one waiting call fails or is not ok: lines 121, 137-140
GStep5FetchFailed ==
    /\ nav.awaiting > 0
    /\ nav' = [nav EXCEPT !.awaiting = @ - 1, !.content[5] = "Error loading Step 5",
                          !.alert = "", !.event = [op |-> "step5FetchFailed"]]
    /\ UNCHANGED <<engine, mvars, hvars, svars, rvars, nvars, pvars, cvars, qvars, xvars>>

\* financial.js has run: line 128
GFinancialLoaded ==
    /\ nav.script = "loading"
    /\ nav' = [loadStep5([nav EXCEPT !.script = "loaded"])
                 EXCEPT !.event = [op |-> "financialLoaded"]]
    /\ UNCHANGED <<engine, mvars, hvars, svars, rvars, nvars, pvars, cvars, qvars, xvars>>

\* financial.js could not be loaded: lines 129-132
GFinancialFailed ==
    /\ nav.script = "loading"
    /\ nav' = [nav EXCEPT !.script = "failed",
                          !.content[5] = "Error loading financial model. Check files.",
                          !.alert = "", !.event = [op |-> "financialFailed"]]
    /\ UNCHANGED <<engine, mvars, hvars, svars, rvars, nvars, pvars, cvars, qvars, xvars>>

GNext ==
    \/ GCalculateCapex \/ GCalculateAnnualOpex \/ GAddMiner \/ GDeleteMiner
    \/ GSwitchStep \/ GStep5Fetched \/ GStep5FetchFailed
    \/ GFinancialLoaded \/ GFinancialFailed

SpecNav == GInit /\ [][GNext]_vars

\* =================================================================
\* Claims
\* =================================================================
\* a price without what rounding has added to it
PExact(p) == IF PIsNaN(p) THEN p ELSE [p EXCEPT !.k = Exact(p.k)]

HGiven == hArgs.correlatedRandom.given
HDraws == hArgs.correlatedRandom.m
HAllDrawsZero ==
    HGiven /\ \A i \in 1..hArgs.numPaths : \A t \in 1..hArgs.years : HDraws[i][t] = LZero
HSomeDrawNonZero ==
    HGiven /\ \E i \in 1..hArgs.numPaths : \E t \in 1..hArgs.years : HDraws[i][t] # LZero

\* C4, as stated: with volatility 0 every path's buy ROI, from the calibrated
\* drift, the simulated path and the buy strategy, is exactly
\* (target/start - 1) * 100, whatever the draws.
C4_ZeroVolBuyROIExactly ==
    (hBuy.called /\ hArgs.calibrated /\ hArgs.sigma = LZero) =>
        \A i \in 1..hArgs.numPaths :
            hBuy.roi[i] = RMul(RSub(RDiv(hArgs.target, hArgs.S0), One), Hundred)

\* C4, amended: with volatility 0 every path's buy ROI is
\* (target/start - 1) * 100 up to what Math.log and Math.exp round, whatever
\* the draws.
C4_ZeroVolBuyROI ==
    (hBuy.called /\ hArgs.calibrated /\ hArgs.sigma = LZero) =>
        \A i \in 1..hArgs.numPaths :
            Exact(hBuy.roi[i]) = RMul(RSub(RDiv(hArgs.target, hArgs.S0), One), Hundred)

\* start 1, target 3 (as 50000 and 150000), several years, draws not all
\* zero: 200% and some rounding
C4_Witness ==
    /\ hBuy.called /\ hArgs.calibrated /\ hArgs.sigma = LZero
    /\ hArgs.S0 = One /\ hArgs.target = <<3, 1>> /\ hArgs.years = MaxCells
    /\ HSomeDrawNonZero
    /\ Exact(hBuy.roi[1]) = <<200, 1>>
    /\ hBuy.roi[1] # <<200, 1>>

\* C5: every returned path has years + 1 entries and starts at S0 exactly;
\* there is one path per requested path.
C5_PathShape ==
    hOut.called =>
        /\ Len(hOut.paths) = hArgs.numPaths
        /\ \A i \in 1..Len(hOut.paths) :
              /\ Len(hOut.paths[i]) = hArgs.years + 1
              /\ PathAt(hOut.paths[i], 0) = PRat(hArgs.S0)

C5_Witness ==
    /\ hOut.called /\ hArgs.numPaths >= 2 /\ hArgs.years >= 2
    /\ hArgs.sigma # LZero /\ HSomeDrawNonZero
    /\ engine.exp # 0
    /\ PathAt(hOut.paths[2], 1) # PathAt(hOut.paths[2], 0)

C7_TypicalPathHitsTargetExactly ==
    (hOut.called /\ hArgs.calibrated /\ HAllDrawsZero) =>
        \A i \in 1..hArgs.numPaths :
            PathAt(hOut.paths[i], hArgs.years) = PRat(hArgs.target)

\* C7, amended: with the calibrated drift and all draws zero, the path ends
\* at the target price up to what Math.log and Math.exp round, for every
\* volatility.
C7_TypicalPathHitsTarget ==
    (hOut.called /\ hArgs.calibrated /\ HAllDrawsZero) =>
        \A i \in 1..hArgs.numPaths :
            PExact(PathAt(hOut.paths[i], hArgs.years)) = PRat(hArgs.target)

C7_Witness ==
    /\ hOut.called /\ hArgs.calibrated /\ HAllDrawsZero
    /\ hArgs.sigma # LZero /\ hArgs.years >= 2 /\ hArgs.target # hArgs.S0
    /\ PExact(PathAt(hOut.paths[1], hArgs.years)) = PRat(hArgs.target)
    /\ PathAt(hOut.paths[1], hArgs.years) # PRat(hArgs.target)

RECURSIVE SumTo(_, _)
SumTo(seq, n) == IF n = 0 THEN 0 ELSE seq[n] + SumTo(seq, n - 1)

\* C1: the bin counts createHistogram returns sum to the number of outcomes.
C1_BinCountsSumToN ==
    sOut.op = "createHistogram" =>
        SumTo(sOut.hist.counts, Len(sOut.hist.counts)) = Len(sData)

\* the configuration of C2: path count in [100, 10000], horizon >= 1, start
\* and target price > 0, volatility a number >= 0, capital > 0
ConfigValid(cfg) ==
    /\ RGe(cfg.numSims, Int2Rat(100)) /\ RLe(cfg.numSims, Int2Rat(10000))
    /\ RGe(cfg.projectionYears, One)
    /\ RGt(cfg.btcStartPrice, Zero) /\ RGt(cfg.btcTargetPrice, Zero)
    /\ ~LIsNaN(cfg.btcVolatility)
    /\ LIsLn2(cfg.btcVolatility) /\ RGe(cfg.btcVolatility.l2, Zero)   \* a multiple of ln 2
    /\ RGt(cfg.investorCapital, Zero)

\* C2: a call of runMonteCarloSimulation with an invalid configuration is
\* rejected, calls randomNormal() never, generates no path and leaves
\* simulationResults as it was.
C2_InvalidConfigRejected ==
    [][(lastRun'.seq # lastRun.seq /\ ~ConfigValid(lastRun'.cfg)) =>
          /\ validationAlert(lastRun'.cfg) # ""
          /\ lastRun'.randomCalls = 0
          /\ lastRun'.btcPaths = <<>>
          /\ simulationResults' = simulationResults]_vars

\* (terminal / start - 1) * 100 of a path, the terminal price being the
\* entry at the horizon
TerminalROI(path, years) ==
    RMul(RSub(RDiv(PToRat(PathAt(path, years)), PToRat(PathAt(path, 0))), One), Hundred)

\* the run that stored simulationResults had no hashrate or no CAPEX
MiningAbsent ==
    /\ lastRun.stored
    /\ \/ RLe(simulationResults.parameters.totalHashratePH, Zero)
       \/ RLe(simulationResults.parameters.totalCapex, Zero)

\* C3: when the total hashrate or the total CAPEX is not positive, a run
\* returns results, with mine ROI 0 for every path and, for every path, the
\* buy ROI of that path's start and terminal price.
C3_MineROIZeroWithoutMining ==
    MiningAbsent =>
        /\ Len(simulationResults.mineResults) = Len(lastRun.btcPaths)
        /\ Len(simulationResults.buyResults) = Len(lastRun.btcPaths)
        /\ \A i \in 1..Len(lastRun.btcPaths) :
              /\ simulationResults.mineResults[i] = Zero
              /\ simulationResults.buyResults[i]
                     = TerminalROI(lastRun.btcPaths[i], lastRun.cfg.projectionYears[1])

\* miners are configured but their CAPEX is 0; the buy ROI varies with the path
C3_Witness ==
    /\ MiningAbsent
    /\ ConfigValid(lastRun.cfg)
    /\ RGt(simulationResults.parameters.totalHashratePH, Zero)
    /\ Len(lastRun.btcPaths) = 100
    /\ \E i, j \in 1..3 :
          RLt(simulationResults.buyResults[i], simulationResults.buyResults[j])

\* order statistic k (from 0) of a sequence of numbers: the value with at
\* most k entries below it and more than k entries not above it
OrderStatistic(arr, k) ==
    CHOOSE v \in Elements(arr) :
        /\ Cardinality({j \in 1..Len(arr) : RLt(arr[j], v)}) <= k
        /\ Cardinality({j \in 1..Len(arr) : RLe(arr[j], v)}) > k

\* the rank p/100 * (n - 1)
Rank(p, n) == Norm(p * (n - 1), 100)

\* C9: percentile(arr, p) is the linear interpolation between the order
\* statistics of arr around the rank p/100 * (n - 1); for p = 50 and an odd
\* length it is the middle order statistic.
C9_PercentileInterpolates ==
    sOut.op = "percentile" =>
        LET n == Len(sData)
            h == Rank(sOut.p, n)
            w == RSub(h, Int2Rat(Floor(h)))
        IN  /\ sOut.value = RAdd(RMul(OrderStatistic(sData, Floor(h)), RSub(One, w)),
                                 RMul(OrderStatistic(sData, Ceil(h)), w))
            /\ (sOut.p = 50 /\ n % 2 = 1) =>
                   sOut.value = OrderStatistic(sData, (n - 1) \div 2)

\* an unsorted sequence whose percentile lies strictly between two entries
C9_Witness ==
    /\ sOut.op = "percentile"
    /\ sOut.value \notin Elements(sData)
    /\ \E j \in 1..(Len(sData) - 1) : RGt(sData[j], sData[j + 1])
    /\ Rank(sOut.p, Len(sData))[2] # 1

\* C10: the wins of a strategy are the pairs where its ROI is strictly the
\* larger, its win rate their fraction of the pairs; with the ties, the
\* wins of both add up to the number of pairs.
C10_WinRateStrict ==
    sOut.op = "winRates" =>
        LET n == Len(sData)
            buyBetter == {i \in 1..n : RGt(sData[i], sOut.mineResults[i])}
            mineBetter == {i \in 1..n : RGt(sOut.mineResults[i], sData[i])}
            ties == {i \in 1..n : sData[i] = sOut.mineResults[i]}
        IN  /\ sOut.rates.buyWins = Cardinality(buyBetter)
            /\ sOut.rates.mineWins = Cardinality(mineBetter)
            /\ sOut.rates.buyWins + sOut.rates.mineWins + Cardinality(ties) = n
            /\ sOut.rates.buyWinRate = Norm(100 * Cardinality(buyBetter), n)
            /\ sOut.rates.mineWinRate = Norm(100 * Cardinality(mineBetter), n)

\* one win each and one tie
C10_Witness ==
    /\ sOut.op = "winRates"
    /\ Len(sData) = MaxPairs
    /\ sOut.rates.buyWins = 1 /\ sOut.rates.mineWins = 1
    /\ \E i \in 1..Len(sData) : sData[i] = sOut.mineResults[i]

\* ----------------------------------------------------------------
\* runSimulations called on its own
\* ----------------------------------------------------------------
RCalled == rOut.op = "runSimulations"
\* the parameters the call read
RParams == readParameters(rOut.pd, rOut.ls, rArgs.investorCapital)
\* the call evaluated the mine strategy
RMined == RCalled /\ miningConfigured(RParams)
RPathCount == Len(rArgs.btcPaths)
\* the terminal price of path i
TerminalPrice(i) == PToRat(PathAt(rArgs.btcPaths[i], rArgs.years))

\* C11: buyResults and mineResults have one entry per path, entry i being
\* the buy ROI and the mine ROI of path i.
C11_ParallelResults ==
    RCalled =>
        /\ Len(rOut.returned.buyResults) = RPathCount
        /\ Len(rOut.returned.mineResults) = RPathCount
        /\ \A i \in 1..RPathCount :
              /\ rOut.returned.buyResults[i] = TerminalROI(rArgs.btcPaths[i], rArgs.years)
              /\ rOut.returned.mineResults[i]
                     = mineROI(rArgs.btcPaths[i], rArgs.investorCapital, rArgs.years, RParams)

\* more paths than the sample retains, the last unlike the first in both ROIs
C11_Witness ==
    /\ RMined
    /\ RPathCount = MaxPaths
    /\ \E i \in 2..RPathCount :
          /\ rOut.returned.buyResults[i] # rOut.returned.buyResults[1]
          /\ rOut.returned.mineResults[i] # rOut.returned.mineResults[1]

\* C12: the retained sample has min(10, path count) entries; entry k has run
\* number k and the start price, terminal price, buy ROI and mine ROI of
\* path k, the ROIs being entry k of buyResults and mineResults.
C12_RetainedSample ==
    RCalled =>
        /\ Len(rOut.returned.scenarios)
               = (IF RPathCount < 10 THEN RPathCount ELSE 10)
        /\ \A k \in 1..Len(rOut.returned.scenarios) :
              LET s == rOut.returned.scenarios[k]
              IN  /\ s.run = k
                  /\ s.btcStart = PathAt(rArgs.btcPaths[k], 0)
                  /\ s.btcEnd = PathAt(rArgs.btcPaths[k], rArgs.years)
                  /\ s.buyROI = rOut.returned.buyResults[k]
                  /\ s.mineROI = rOut.returned.mineResults[k]

\* more than 10 paths, 10 retained, the mine strategy evaluated
C12_Witness ==
    /\ RMined
    /\ RPathCount > 10
    /\ Len(rOut.returned.scenarios) = 10
    /\ rOut.returned.scenarios[10].run = 10
    /\ rOut.returned.scenarios[10].btcEnd # rOut.returned.scenarios[9].btcEnd

\* the BTC the investor earns of what is mined over the horizon: all of it
\* for an owner-operator, else the capital's share of the LP part
InvestorBtc ==
    LET mined == btcMinedFrom(1, rArgs.years, RParams)
    IN  IF RParams.structure.isOwnerOperator THEN mined
        ELSE RMul(RDiv(rArgs.investorCapital, RParams.structure.totalLpCapital),
                  RMul(mined, RDiv(RParams.structure.lpPercent, Hundred)))

\* the capital's share capital / total CAPEX
CapitalShare == RDiv(rArgs.investorCapital, RParams.totalCapex)
\* the capital-proportional share of total CAPEX x residual fraction
ResidualShare == RMul(CapitalShare, RMul(RParams.totalCapex, EQUIPMENT_RESIDUAL_PERCENT))
\* the OPEX accrued over the horizon
HorizonOpex == RMul(RParams.annualOpex, Int2Rat(rArgs.years))
\* the OPEX the investor is charged: all of it for an owner-operator, else
\* the capital's share
ChargedOpex == IF RParams.structure.isOwnerOperator THEN HorizonOpex
               ELSE RMul(CapitalShare, HorizonOpex)

\* C13, as stated: the mine return of a path is the investor's BTC valued at
\* the terminal price, plus the residual share, minus the investor's OPEX,
\* divided by capital, as a percentage.
C13_MineReturnGross ==
    RMined =>
        \A i \in 1..RPathCount :
            rOut.returned.mineResults[i]
                = RMul(RDiv(RSub(RAdd(RMul(InvestorBtc, TerminalPrice(i)), ResidualShare),
                                 ChargedOpex),
                            rArgs.investorCapital), Hundred)

\* C13, amended: the mine return of a path is the investor's BTC valued at
\* the terminal price, plus the residual share, minus the capital, minus the
\* investor's OPEX, divided by capital, as a percentage.
C13_MineReturnNet ==
    RMined =>
        \A i \in 1..RPathCount :
            rOut.returned.mineResults[i]
                = RMul(RDiv(RSub(RSub(RAdd(RMul(InvestorBtc, TerminalPrice(i)),
                                           ResidualShare),
                                      rArgs.investorCapital),
                                 ChargedOpex),
                            rArgs.investorCapital), Hundred)

\* a GP/LP structure with OPEX, three years, two paths of different returns
C13_Witness ==
    /\ RMined
    /\ ~RParams.structure.isOwnerOperator
    /\ RGt(HorizonOpex, Zero)
    /\ rArgs.years = MaxYears
    /\ RPathCount >= 2
    /\ RLt(rOut.returned.mineResults[1], rOut.returned.mineResults[2])

\* C14: in every investment structure the OPEX charged in the mine return
\* is capital / total CAPEX of the OPEX of the horizon.
C14_OpexShareProportional ==
    RMined =>
        \A i \in 1..RPathCount :
            rOut.returned.mineResults[i]
                = RMul(RDiv(RSub(RSub(RAdd(RMul(InvestorBtc, TerminalPrice(i)),
                                           ResidualShare),
                                      rArgs.investorCapital),
                                 RMul(CapitalShare, HorizonOpex)),
                            rArgs.investorCapital), Hundred)

\* ----------------------------------------------------------------
\* calculateNetworkShare called on its own
\* ----------------------------------------------------------------
NCalled == nOut.op = "calculateNetworkShare"
\* miner and network hashrate > 0 and both growth rates >= 0
NPositive ==
    /\ NCalled
    /\ RGt(nOut.minerHashratePH, Zero) /\ RGt(nOut.networkHashrateEH, Zero)
    /\ RGe(nOut.growth[1], Zero)
\* the difficulty factor of growth rate k of the call
DifficultyFactor(k) == RPow(RAdd(One, nOut.growth[k]), nOut.year - 1)
IsFiniteNumber(x) == x[2] # 0

\* C15, as stated: for every year >= 1 the larger growth rate yields the
\* strictly smaller network share.
C15_StrictlyDecreasingInGrowth ==
    NPositive => RLt(nOut.share[2], nOut.share[1])

\* C15, amended: the larger growth rate yields the strictly smaller network
\* share for every year >= 2 and the same share for year 1.
C15_DecreasingInGrowthAfterFirstYear ==
    NPositive =>
        IF nOut.year = 1 THEN nOut.share[2] = nOut.share[1]
        ELSE RLt(nOut.share[2], nOut.share[1])

C15_Witness ==
    /\ NPositive
    /\ nOut.year = MaxYears
    /\ RGt(nOut.growth[1], Zero)
    /\ RLt(nOut.share[2], nOut.share[1])
    /\ RGt(nOut.share[2], Zero)

\* C16: no call with a network hashrate or a difficulty factor that is not
\* positive returns a share; in particular none returns Infinity or NaN.
C16_DegenerateShareFails ==
    (/\ NCalled
     /\ \/ RLe(nOut.networkHashrateEH, Zero)
        \/ RLe(DifficultyFactor(1), Zero)
        \/ RLe(DifficultyFactor(2), Zero))
    => /\ IsFiniteNumber(nOut.share[1])
       /\ IsFiniteNumber(nOut.share[2])

\* C17: the parameters a call that evaluates the mine strategy used are in
\* their ranges: the investor's profit share in [0, 1], uptime in (0, 1],
\* difficulty growth >= 0, network hashrate > 0.
C17_ParametersInRange ==
    RMined =>
        /\ RGe(RParams.structure.investorProfitSharePercent, Zero)
        /\ RLe(RParams.structure.investorProfitSharePercent, Hundred)
        /\ RGt(RParams.uptime, Zero) /\ RLe(RParams.uptime, One)
        /\ RGe(RParams.difficultyGrowth, Zero)
        /\ RGt(RParams.networkHashrateEH, Zero)

\* C18: every buy ROI is that of the path's own terminal price, and a call
\* that differs from the call before it in the secondary series only
\* returns the same buyResults and mineResults.
C18_SecondarySeriesWithoutInfluence ==
    [][(rOut'.op = "runSimulations" /\ rOut' # rOut) =>
          /\ \A i \in 1..Len(rArgs'.btcPaths) :
                rOut'.returned.buyResults[i] = TerminalROI(rArgs'.btcPaths[i], rArgs'.years)
          /\ (RCalled /\ rOut'.pd = rOut.pd /\ rOut'.ls = rOut.ls) =>
                /\ rOut'.returned.buyResults = rOut.returned.buyResults
                /\ rOut'.returned.mineResults = rOut.returned.mineResults]_vars

\* a second call with another secondary series, the mine strategy evaluated,
\* the retained hash prices unlike the primary ones
C18_Witness ==
    /\ RMined
    /\ rOut.differs = "secondary"
    /\ RPathCount >= 2
    /\ rOut.returned.scenarios[1].hashEnd # rOut.returned.scenarios[1].btcEnd
    /\ rOut.returned.mineResults[1] # rOut.returned.mineResults[2]

\* a call leaves the paths, projectData, localStorage and simulationResults
\* as they were
RFrame ==
    /\ rArgs' = rArgs
    /\ rOut'.hashPaths = rOut'.given
    /\ projectData' = projectData
    /\ localStorage' = localStorage
    /\ simulationResults' = simulationResults

\* C19, as stated: a call has no side effect, and two calls with the same
\* paths, capital and horizon return the same.
C19_PureInArguments ==
    [][(rOut'.op = "runSimulations" /\ rOut' # rOut) =>
          /\ RFrame
          /\ (RCalled /\ rOut'.given = rOut.given) => rOut'.returned = rOut.returned]_vars

\* C19, amended: a call has no side effect, and two calls with the same
\* paths, capital and horizon return the same when projectData and the keys
\* of localStorage the function reads are the same.
C19_PureInArgumentsAndProject ==
    [][(rOut'.op = "runSimulations" /\ rOut' # rOut) =>
          /\ RFrame
          /\ (RCalled /\ rOut'.given = rOut.given
                /\ rOut'.pd = rOut.pd /\ rOut'.ls = rOut.ls) =>
                rOut'.returned = rOut.returned]_vars

\* a call repeated with everything as in the call before it, the mine
\* strategy evaluated on several paths
C19_Witness ==
    /\ RMined
    /\ rOut.differs = "nothing"
    /\ RPathCount >= 2
    /\ rOut.returned.mineResults[1] # rOut.returned.mineResults[2]

\* ----------------------------------------------------------------
\* a call of runMonteCarloSimulation statement by statement
\* ----------------------------------------------------------------
\* the statements after the draws, after the primary paths, after the
\* secondary paths, after the evaluation
PAfterDraws ==
    {"btcPaths", "hashPaths", "runSimulations", "store", "displayResults", "done"}
PAfterBtcPaths == PAfterDraws \ {"btcPaths"}
PAfterHashPaths == PAfterBtcPaths \ {"hashPaths"}
PAfterEvaluation == PAfterHashPaths \ {"runSimulations"}
PPathCount == run.cfg.numSims[1]
PSteps == IF run.cfg.projectionYears[1] > 0 THEN run.cfg.projectionYears[1] ELSE 0

\* every path of paths starts at S0 and step t of path i is the step of
\* lines 30-33 from the entry before it with cell (i, t) of the draws z
PathsConsume(paths, z, S0, mu, sigma) ==
    /\ Len(paths) = PPathCount
    /\ \A i \in 1..PPathCount :
          /\ Len(paths[i]) = PSteps + 1
          /\ paths[i][1] = PRat(S0)
          /\ \A s \in 1..PSteps :
                paths[i][s + 1] = gbmStep(paths[i][s], mu, sigma, z[i][s], engine)

\* C20: in a run all draws are generated before any path, the paths are
\* generated from those draws, cell (i, t) at step t of path i of each
\* series, with no further call of randomNormal(); every path is evaluated
\* before simulationResults is stored and before anything is displayed, and
\* what is displayed counts every path.
C20_PhasesOrdered ==
    /\ run.pc = "generateCorrelatedRandoms" =>
          run.correlatedRandoms.z1 = <<>> /\ run.randomCalls = 0
    /\ run.pc \in {"generateCorrelatedRandoms", "btcPaths"} => run.btcPaths = <<>>
    /\ run.pc \in {"generateCorrelatedRandoms", "btcPaths", "hashPaths"} =>
          run.hashPaths = <<>>
    /\ run.pc \in {"generateCorrelatedRandoms", "btcPaths", "hashPaths", "runSimulations"} =>
          run.results = null
    /\ run.pc \in {"idle", "generateCorrelatedRandoms", "btcPaths", "hashPaths",
                   "runSimulations", "store"} => simulationResults = null
    /\ run.pc # "done" => page = NoPage
    /\ run.pc \in PAfterDraws =>
          /\ run.randomCalls = 2 * PPathCount * PSteps
          /\ Len(run.correlatedRandoms.z1) = PPathCount
          /\ Len(run.correlatedRandoms.z2) = PPathCount
          /\ \A i \in 1..PPathCount :
                /\ Len(run.correlatedRandoms.z1[i]) = PSteps
                /\ Len(run.correlatedRandoms.z2[i]) = PSteps
    /\ run.pc \in PAfterBtcPaths =>
          PathsConsume(run.btcPaths, run.correlatedRandoms.z1, run.cfg.btcStartPrice,
                       btcDrift(run.cfg, engine), btcSigma(run.cfg))
    /\ run.pc \in PAfterHashPaths =>
          PathsConsume(run.hashPaths, run.correlatedRandoms.z2, hashStart(run.cfg),
                       hashDrift(run.cfg, engine), hashSigma(run.cfg))
    /\ run.pc \in PAfterEvaluation =>
          /\ Len(run.results.buyResults) = PPathCount
          /\ Len(run.results.mineResults) = PPathCount
    /\ run.pc \in {"displayResults", "done"} => simulationResults = run.results
    /\ run.pc = "done" =>
          /\ page.summary.simRunCount = PPathCount
          /\ page.summary.buy.p50
                 = ToFixed(percentile(simulationResults.buyResults, 50), 1)
          /\ page.summary.mine.p50
                 = ToFixed(percentile(simulationResults.mineResults, 50), 1)

\* a run of 100 paths over 2 years with volatility, to its end, the mine
\* strategy evaluated, the draws of a path differing from step to step
C20_Witness ==
    /\ run.pc = "done"
    /\ run.alert = ""
    /\ ConfigValid(run.cfg)
    /\ PPathCount = 100 /\ PSteps = 2
    /\ run.randomCalls = 400
    /\ \E i \in 1..PPathCount :
          run.correlatedRandoms.z1[i][1] # run.correlatedRandoms.z1[i][2]
    /\ run.btcPaths[1] # run.btcPaths[2]
    /\ RGt(simulationResults.parameters.totalHashratePH, Zero)
    /\ RGt(simulationResults.parameters.totalCapex, Zero)

\* ----------------------------------------------------------------- C21
CCalled == cOut.op = "generateCorrelatedRandoms"
\* the number of the cell (i, t) in the order the loops of lines 73-91 visit
CCell(i, t) == (i - 1) * cOut.numSteps + (t - 1)
\* the two values randomNormal() returns for the cell (i, t): lines 78-79
CE1(i, t) == FreshAt(cOut.fresh, 2 * CCell(i, t) + 1)
CE2(i, t) == FreshAt(cOut.fresh, 2 * CCell(i, t) + 2)

\* C21: generateCorrelatedRandoms returns z1 and z2 of numPaths rows of
\* numSteps entries each; in every cell z1 = e1 and
\* z2 = rho*e1 + sqrt(1 - rho^2)*e2 for the two fresh draws e1, e2 of the
\* cell and the rho of the call, so that z2 = e2 whatever e1 when rho = 0.
C21_CorrelatedRandoms ==
    CCalled =>
        /\ Len(cOut.returned.z1) = cOut.numPaths
        /\ Len(cOut.returned.z2) = cOut.numPaths
        /\ \A i \in 1..cOut.numPaths :
             /\ Len(cOut.returned.z1[i]) = cOut.numSteps
             /\ Len(cOut.returned.z2[i]) = cOut.numSteps
             /\ \A t \in 1..cOut.numSteps :
                  /\ cOut.returned.z1[i][t] = CE1(i, t)
                  /\ cOut.returned.z2[i][t] =
                        LAdd(LMul(LRat(cOut.rho), CE1(i, t)),
                             LMul(MathSqrt(RSub(One, RMul(cOut.rho, cOut.rho))), CE2(i, t)))
                  /\ cOut.rho = Zero => cOut.returned.z2[i][t] = CE2(i, t)

\* a call with rho = 0 for two rows of two cells whose first draws are not
\* zero, and a cell where z2 differs from z1
C21_Witness ==
    /\ CCalled
    /\ cOut.rho = Zero
    /\ cOut.numPaths = 2 /\ cOut.numSteps = 2
    /\ CE1(1, 1) # LZero /\ CE1(2, 2) # LZero
    /\ cOut.returned.z2[2][2] # cOut.returned.z1[2][2]

\* ----------------------------------------------------------------- C22
QCalled == qOut.op = "mining"

\* C22: for a horizon of five years, the same mining, capital-structure and
\* network parameters and the terminal price equal to the year-5 price of
\* Step 6, the mine ROI of runSimulations equals the ROI of
\* calculateLpMiningReturns, for an owner-operator and for a GP/LP structure.
C22_MineROIMatchesStep6 ==
    QCalled /\ miningConfigured(qOut.parameters) =>
        qOut.mineROI = qOut.lpMiningReturns.roi

\* ----------------------------------------------------------------- C23
\* the calendar year of year y of the horizon
QCalendarYear(y) == RSub(RAdd(qOut.projectData.startYear, Int2Rat(y)), One)

\* C23: for the same hashrate, network hashrate, difficulty growth, uptime
\* and start year, the BTC mined in each of the years 1..5 and in total that
\* the Monte Carlo evaluator computes inline equal those of
\* calculateYearlyProjections and those of investor.js with
\* calculateNetworkShare and getBlockReward, the block reward being halved
\* from the year whose calendar year reaches the halving year.
C23_MiningModelShared ==
    QCalled /\ qOut.inline.computed =>
        /\ \A y \in 1..StepYears :
             /\ qOut.inline.btcMined[y] = qOut.projections.yearlyData[y].btcMined
             /\ qOut.inline.btcMined[y] =
                   lpBtcMined(y, qOut.projectData, qOut.inputs.networkHashrateEH,
                              qOut.inputs.difficultyGrowth, qOut.inputs.uptime)
             /\ qOut.inline.btcMined[y] =
                   RMul(RMul(RMul(calculateNetworkShare(qOut.projectData.totalHashratePH,
                                      qOut.inputs.networkHashrateEH,
                                      qOut.inputs.difficultyGrowth, y),
                                  Int2Rat(BLOCKS_PER_YEAR)),
                             IF RGe(QCalendarYear(y), Int2Rat(HALVING_YEAR))
                             THEN <<25, 16>> ELSE <<25, 8>>),
                        qOut.inputs.uptime)
        /\ qOut.inline.totalBtcMined = qOut.projections.totalBtcMined
        /\ qOut.inline.totalBtcMined = qOut.lpMiningReturns.totalBtcMined

\* a project whose third year is the halving year, with difficulty growth:
\* the BTC mined differ from year to year
C23_Witness ==
    /\ QCalled /\ qOut.inline.computed
    /\ qOut.projectData.startYear = Int2Rat(2026)
    /\ qOut.inputs.difficultyGrowth = Half
    /\ RLt(qOut.inline.btcMined[3], qOut.inline.btcMined[2])
    /\ RLt(RMul(qOut.inline.btcMined[3], <<2, 1>>), qOut.inline.btcMined[2])
    /\ RLt(Zero, qOut.inline.btcMined[5])

\* ----------------------------------------------------------------- C24
\* the results panel is visible
ResultsVisible == mcResults = "block"

\* some run of the model returned the stored results and displayed the page
DisplayedRunIsStored ==
    \E k \in DOMAIN RunTable :
        /\ RunTable[k].results = simulationResults
        /\ RunTable[k].shown = page
        /\ page.summary.simRunCount = Len(simulationResults.buyResults)

\* the handler that ran last is exportMCData
Exported == csv.op = "exportMCData"

\* a step that assigns new results to simulationResults
Stores == simulationResults' # simulationResults

\* C24: after any sequence of runs and export requests, exportMCData emits a
\* CSV only if an earlier run passed validation and stored its results, the
\* CSV has one data row per path of the results stored last, and whenever
\* the results panel is visible after a run attempt, simulationResults holds
\* the results of the run that is displayed.
C24_ExportAndDisplayFollowStoredRun ==
    /\ [](simulationResults # null => lastRun.seq >= 1)
    /\ [](csv.downloaded => simulationResults # null)
    /\ [](ResultsVisible => simulationResults # null /\ DisplayedRunIsStored)
    /\ [][Stores =>
             /\ lastRun'.seq = lastRun.seq + 1
             /\ lastRun'.stored
             /\ validationAlert(lastRun'.cfg) = ""
             /\ Len(simulationResults'.buyResults) = lastRun'.cfg.numSims[1]
             /\ Len(simulationResults'.mineResults) = lastRun'.cfg.numSims[1]]_vars
    /\ [](Exported =>
             IF simulationResults = null
             THEN ~csv.downloaded /\ csv.rows = <<>> /\ csv.alert # ""
             ELSE /\ csv.downloaded
                  /\ Len(csv.rows) = Len(simulationResults.buyResults)
                  /\ \A i \in 1..Len(csv.rows) : csv.rows[i].simulation = i)

\* a CSV exported after a run that stored its results and a later run that
\* failed validation, the panel showing the results of the first
C24_Witness ==
    /\ Exported /\ csv.downloaded
    /\ Len(csv.rows) = 100
    /\ lastRun.seq = 2 /\ ~lastRun.stored /\ lastRun.alert # ""
    /\ ResultsVisible

\* ----------------------------------------------------------------- C25
\* the lines of the CSV exportMCData writes for the results returned
RRows == exportMCData(rOut.returned).rows
\* the counters of displayResults for the results returned
RWinRates == winRates(rOut.returned.buyResults, rOut.returned.mineResults, RPathCount)
\* how many lines of the CSV carry the label
RowsLabelled(label) == Cardinality({i \in 1..Len(RRows) : RRows[i].winner = label})

\* C25: a retained scenario and a CSV row are labelled 'Buy' exactly when
\* the path is counted as a buy win and 'Mine' exactly when it is counted as
\* a mine win, so the number of rows labelled 'Mine' is the mine win count.
C25_WinnerLabelsMatchWinCounts ==
    RCalled =>
        /\ \A i \in 1..RPathCount :
             /\ RRows[i].winner = "Buy" <=>
                    wins(rOut.returned.buyResults[i], rOut.returned.mineResults[i])
             /\ RRows[i].winner = "Mine" <=>
                    wins(rOut.returned.mineResults[i], rOut.returned.buyResults[i])
        /\ \A i \in 1..Len(rOut.returned.scenarios) :
             /\ rOut.returned.scenarios[i].winner = "Buy" <=>
                    wins(rOut.returned.buyResults[i], rOut.returned.mineResults[i])
             /\ rOut.returned.scenarios[i].winner = "Mine" <=>
                    wins(rOut.returned.mineResults[i], rOut.returned.buyResults[i])
        /\ RowsLabelled("Buy") = RWinRates.buyWins
        /\ RowsLabelled("Mine") = RWinRates.mineWins


\* C25 as the code has it: a row and a retained scenario are labelled 'Buy'
\* exactly when the path is counted as a buy win and 'Mine' otherwise (a
\* mine win, a tie, or ROIs that do not compare), so the rows labelled
\* 'Mine' are the paths that are not buy wins.
C25_WinnerLabelsFollowBuyWins ==
    RCalled =>
        /\ Len(RRows) = RPathCount
        /\ \A i \in 1..RPathCount :
             /\ RRows[i].winner \in {"Buy", "Mine"}
             /\ RRows[i].winner = "Buy" <=>
                    wins(rOut.returned.buyResults[i], rOut.returned.mineResults[i])
             /\ wins(rOut.returned.mineResults[i], rOut.returned.buyResults[i]) =>
                    RRows[i].winner = "Mine"
        /\ \A i \in 1..Len(rOut.returned.scenarios) :
             rOut.returned.scenarios[i].winner = RRows[i].winner
        /\ RowsLabelled("Buy") = RWinRates.buyWins
        /\ RowsLabelled("Mine") = RPathCount - RWinRates.buyWins
        /\ RowsLabelled("Mine") >= RWinRates.mineWins

\* mining is not configured and both paths end at their start price: both
\* ROIs are 0 on both paths, both rows are labelled 'Mine', no win is counted
C25_Witness ==
    /\ RCalled /\ ~RMined
    /\ RPathCount = 2
    /\ \A i \in 1..2 : rOut.returned.buyResults[i] = rOut.returned.mineResults[i]
    /\ RowsLabelled("Mine") = 2
    /\ RWinRates.mineWins = 0 /\ RWinRates.buyWins = 0

\* ----------------------------------------------------------------- C26
\* a run has displayed its results
PDisplayed == run.pc = "done" /\ run.alert = ""
\* the medians of lines 475 and 486 for the results of the run
PBuyMedian == strategyStats(run.results.buyResults).p50
PMineMedian == strategyStats(run.results.mineResults).p50
\* the counters of lines 503-504 for the results of the run
PWinRates == winRates(run.results.buyResults, run.results.mineResults, PPathCount)

\* C26: the strategy the winner banner names, chosen by the medians, wins
\* at least as many scenarios as the other strategy, for every ensemble
\* runSimulations produces.
C26_BannerNamesMajorityWinner ==
    PDisplayed =>
        /\ page.summary.mcWinnerText = "BUY BTC" =>
               RGe(page.summary.buyWinRate, page.summary.mineWinRate)
        /\ page.summary.mcWinnerText = "MINE BTC" =>
               RGe(page.summary.mineWinRate, page.summary.buyWinRate)

\* C26 as the code has it: the banner names BUY BTC exactly when the buy
\* median is the larger and MINE BTC otherwise; for the paths of a run,
\* which start at one price, the strategy with the larger median wins at
\* least as many scenarios as the other.
C26_LargerMedianWinsMajority ==
    PDisplayed =>
        /\ page.summary.mcWinnerText = "BUY BTC" <=> RGt(PBuyMedian, PMineMedian)
        /\ page.summary.mcWinnerText = "MINE BTC" <=> ~RGt(PBuyMedian, PMineMedian)
        /\ RGt(PBuyMedian, PMineMedian) => PWinRates.buyWins >= PWinRates.mineWins
        /\ RGt(PMineMedian, PBuyMedian) => PWinRates.mineWins >= PWinRates.buyWins
        /\ page.summary.buyWinRate = rate(PWinRates.buyWins, PPathCount)
        /\ page.summary.mineWinRate = rate(PWinRates.mineWins, PPathCount)

\* equal medians: the banner names MINE BTC, which wins no scenario, while
\* buying wins some
C26_Witness ==
    /\ PDisplayed
    /\ PBuyMedian = PMineMedian
    /\ page.summary.mcWinnerText = "MINE BTC"
    /\ PWinRates.mineWins = 0 /\ PWinRates.buyWins > 0

\* ----------------------------------------------------------------- C27
\* the statistics and the win-rate loop of displayResults have run
SDisplayed == sOut.op = "displayResults"
\* the paths where the first array holds the strictly larger ROI
PathsWon(first, second) == {i \in 1..Len(first) : RGt(first[i], second[i])}

\* C27: percentile leaves its input array as it was, so after the
\* statistics both arrays still hold path i at index i, and the win-rate
\* loop compares the buy and mine ROI of the same path.
C27_StatisticsKeepPathOrder ==
    /\ [][sData' = sData]_vars
    /\ [](SDisplayed =>
            /\ sOut.mineAfter = sOut.mineResults
            /\ sOut.rates.buyWins = Cardinality(PathsWon(sData, sOut.mineResults))
            /\ sOut.rates.mineWins = Cardinality(PathsWon(sOut.mineResults, sData)))

\* two unsorted arrays whose sorted copies would give other win counts
C27_Witness ==
    /\ SDisplayed
    /\ SortAscending(sData) # sData
    /\ SortAscending(sOut.mineResults) # sOut.mineResults
    /\ sOut.rates.buyWins > 0 /\ sOut.rates.mineWins > 0
    /\ Cardinality(PathsWon(SortAscending(sData), SortAscending(sOut.mineResults)))
           # sOut.rates.buyWins

\* ----------------------------------------------------------------- C28
\* min <= P10 <= P25 <= P50 <= P75 <= P90 <= max
StatsOrdered(st) ==
    /\ RLe(st.min, st.p10) /\ RLe(st.p10, st.p25) /\ RLe(st.p25, st.p50)
    /\ RLe(st.p50, st.p75) /\ RLe(st.p75, st.p90) /\ RLe(st.p90, st.max)
\* every percentile lies between two values of arr
StatsBetweenValues(arr, st) ==
    \A v \in {st.p10, st.p25, st.p50, st.p75, st.p90} :
        \E a \in Elements(arr), b \in Elements(arr) : RLe(a, v) /\ RLe(v, b)
StatsInOrder(arr, st) == StatsOrdered(st) /\ StatsBetweenValues(arr, st)
AllFinite(arr) == \A j \in 1..Len(arr) : IsFiniteNumber(arr[j])

Incomplete(n) == n.totalCapex = 0 \/ n.totalOpex = 0 \/ n.miners = 0
\* the handler that ran last is switchStep(5), switchStep(6) or switchStep(7)
SwitchedForward(n) == n.event.op = "switchStep" /\ n.event.step \in {5, 6, 7}

\* C29: switchStep(5), (6) or (7) while CAPEX is 0, OPEX is 0 or no miner
\* exists leaves currentStep and the active tab as they were and loads no
\* step content; currentStep becomes 5, 6 or 7 only in a state where CAPEX
\* and OPEX are non-zero and a miner exists.
C29_IncompleteProjectBlocksSteps ==
    /\ [][(SwitchedForward(nav') /\ Incomplete(nav)) =>
              /\ nav'.currentStep = nav.currentStep
              /\ nav'.activeTab = nav.activeTab
              /\ nav'.content = nav.content
              /\ nav'.awaiting = nav.awaiting
              /\ nav'.injected = nav.injected
              /\ nav'.loadStep5 = nav.loadStep5
              /\ nav'.alert = "Complete Steps 2-4 first."]_vars
    /\ [][(nav'.currentStep # nav.currentStep /\ nav'.currentStep \in {5, 6, 7}) =>
              ~Incomplete(nav) /\ ~Incomplete(nav')]_vars

\* switchStep(5) refused on step 4 for the lack of a miner alone
C29_Witness ==
    /\ SwitchedForward(nav) /\ nav.event.step = 5
    /\ nav.alert = "Complete Steps 2-4 first."
    /\ nav.currentStep = 4 /\ nav.activeTab = 4
    /\ nav.totalCapex # 0 /\ nav.totalOpex # 0 /\ nav.miners = 0
    /\ nav.content[5] = ""

\* ----------------------------------------------------------------- C30
\* C30: under every interleaving of switchStep(5) calls, financial.js is
\* injected at most once and loadStep5 is invoked only after financial.js
\* has finished loading.
C30_Step5LoadsOnceBeforeUse ==
    /\ nav.injected <= 1
    /\ nav.loadStep5.invoked => nav.loadStep5.moduleLoaded

====
